---- MODULE Spec2Model ----
(***************************************************************************)
(* The local data layer of the appointment-scheduling client:              *)
(*   - storageService (src/src/services/storage.ts): a key-value store     *)
(*     over AsyncStorage with an in-memory cache with optional expiry,     *)
(*     the collection repositories built on it, backup and restore;        *)
(*   - notificationService (src/unnamed/part_004): the notification        *)
(*     repository, which reads and writes AsyncStorage directly.           *)
(*                                                                         *)
(* Every service method is an async function.  A call runs synchronously   *)
(* up to its first await, is suspended there, and is resumed later; other  *)
(* calls run in between.  A call is modelled as a task that moves through  *)
(* three kinds of steps: Start (the synchronous prefix, up to the first    *)
(* await), Disk (the awaited AsyncStorage request takes effect on the      *)
(* persistent medium) and Resume (the code after the await, up to the next *)
(* await or to the end of the call).  AsyncStorage promises no order       *)
(* between independent requests, so the steps of different tasks           *)
(* interleave freely.                                                      *)
(***************************************************************************)
EXTENDS Integers, Sequences, FiniteSets, TLC

VARIABLES
    disk,    \* AsyncStorage: key -> stored string, or Absent
    cache,   \* storage.ts:41, the module-level Map: key -> CacheItem, or NoEntry
    mem,     \* the other in-memory state: AuthProvider's `user` (part_003:55),
             \* authService's `registeredUsers` (part_005:52), a screen's
             \* `appointments` (the list it loaded)
    now,     \* Date.now(), in milliseconds
    tasks,   \* the calls in flight: task id -> its position and locals
    last,    \* the call that ended last: its arguments, its result, what it saw
    hist     \* history: what completed calls have established

vars == <<disk, cache, mem, now, tasks, last, hist>>

----------------------------------------------------------------------------
(* Bounds of the model *)

\* calls made in one behaviour
MaxCalls == 3
\* clock ticks in one behaviour
MaxTicks == 1
\* items in one stored collection
MaxItems == 2

(* Program constants *)

\* storage.ts:74, one minute in Date.now()'s milliseconds
MsPerMinute == 60 * 1000
\* the clock's value when the behaviour starts; Date.now() is positive
StartTime == MsPerMinute
\* the clock advances by one minute at a time
TickMs == MsPerMinute

\* two calls may be in flight at the same time
TaskIds == {1, 2}

----------------------------------------------------------------------------
(* Keys: STORAGE_KEYS, storage.ts:44-52 *)

USER == "@MedicalApp:user"
TOKEN == "@MedicalApp:token"
APPOINTMENTS == "@MedicalApp:appointments"
NOTIFICATIONS == "@MedicalApp:notifications"
REGISTERED_USERS == "@MedicalApp:registeredUsers"
APP_SETTINGS == "@MedicalApp:settings"
STATISTICS_CACHE == "@MedicalApp:statisticsCache"

STORAGE_KEYS ==
    {USER, TOKEN, APPOINTMENTS, NOTIFICATIONS, REGISTERED_USERS, APP_SETTINGS,
     STATISTICS_CACHE}

----------------------------------------------------------------------------
(* JavaScript values.  Every value is a record tagged by t, so that any    *)
(* two values can be compared.                                             *)

Undefined == [t |-> "undefined"]
Null == [t |-> "null"]
Str(s) == [t |-> "string", s |-> s]
Arr(a) == [t |-> "array", a |-> a]
Obj(o) == [t |-> "object", o |-> o]
Num(n) == [t |-> "number", n |-> n]

\* JavaScript truthiness, as used by `stored ? ...`, `x || y`, `if (x)`
Truthy(v) ==
    CASE v.t = "undefined" -> FALSE
      [] v.t = "null" -> FALSE
      [] v.t = "string" -> v.s # ""
      [] v.t = "number" -> v.n # 0
      [] OTHER -> TRUE

\* a || b
OrElse(a, b) == IF Truthy(a) THEN a ELSE b

(* Strings held by AsyncStorage.  A string is either the JSON text of a    *)
(* value or some other text, which JSON.parse rejects.  AsyncStorage's     *)
(* getItem answers null for a key it does not hold.                        *)

Absent == [t |-> "null"]
JsonText(v) == [t |-> "string", s |-> "json", v |-> v]
RawText(s) == [t |-> "string", s |-> s]

\* JSON.stringify(value): the JSON text of the value
JSONstringify(v) == JsonText(v)

\* whether JSON.parse(text) throws a SyntaxError
ParseThrows(text) == \/ text.t # "string"
                     \/ "v" \notin DOMAIN text

\* JSON.parse(text), for a text it accepts
JSONparse(text) == text.v


----------------------------------------------------------------------------
(* The cache: storage.ts:34-41 *)

\* cache.get(key) of a key the Map does not hold
NoEntry == [t |-> "undefined"]

\* CacheItem; expiry 0 stands for `expiry: undefined` (both are falsy)
CacheItem(data, timestamp, expiry) ==
    [data |-> data, timestamp |-> timestamp, expiry |-> expiry]

\* storage.ts:94, `cached && (!cached.expiry || cached.expiry > Date.now())`
CacheValidStale(cached, time) ==
    /\ cached # NoEntry
    /\ (cached.expiry = 0 \/ cached.expiry >= time)
CacheValid(cached, time) ==
    /\ cached # NoEntry
    /\ (cached.expiry = 0 \/ cached.expiry > time)

\* storage.ts:74, `expiryMinutes ? Date.now() + (expiryMinutes * 60 * 1000) : undefined`
ExpiryOf(expiryMinutes, time) ==
    IF expiryMinutes # 0 THEN time + (expiryMinutes * MsPerMinute) ELSE 0

\* storage.ts:109 and 112, `defaultValue || null`
DefaultOrNull(defaultValue) == OrElse(defaultValue, Null)

----------------------------------------------------------------------------
(* Tasks *)

None == [t |-> "none"]

\* what an awaited AsyncStorage request answers
Resolved(v) == [ok |-> TRUE, v |-> v]
Rejected == [ok |-> FALSE, v |-> Undefined]

\* how a call or an awaited inner call ends
Returned(v) == [threw |-> FALSE, v |-> v]
Threw == [threw |-> TRUE, v |-> Undefined]

Idle ==
    [op |-> "idle", pc |-> "idle", stage |-> 0, arg |-> None,
     key |-> "", val |-> None, ttl |-> 0, dflt |-> None, raw |-> Resolved(None),
     acc |-> None,
     \* history of the call, for the properties
     \*   seen: the cache entry getItem found; t0: the clock at that check
     \*   expect: what an earlier completed call lets this call expect
     \*   clean: no other call has interfered since this call started
     \*   read: what the call's read returned
     \*   before: the stored text just before the call's own write
     \*   prev: the four stored sections when the call started
     \*   gone: the key was removed, and not set since, when the call started
     \*   session: the stored user and token when a call of AuthProvider started
     seen |-> NoEntry, t0 |-> 0, expect |-> None, clean |-> TRUE, read |-> None,
     before |-> None, prev |-> None, gone |-> FALSE, session |-> None]

\* no call has ended yet
NoCall ==
    [op |-> "none", arg |-> None, out |-> Returned(None), key |-> "",
     pc |-> "", val |-> None, raw |-> Resolved(None), dflt |-> None,
     seen |-> NoEntry, t0 |-> 0, expect |-> None, clean |-> TRUE, read |-> None,
     before |-> None, prev |-> None, gone |-> FALSE, session |-> None,
     \* what the four getters return, and the four stored sections, as the
     \* call left them
     getters |-> None, sections |-> None]

\* nothing has happened yet
NoHist ==
    [lastSet |-> [k \in STORAGE_KEYS |-> None],
     added |-> {}, dropped |-> {}, removed |-> {},
     backup |-> None, fresh |-> FALSE, calls |-> 0,
     \* signedOut: signOut has completed and no signIn or register was called since
     signedOut |-> FALSE, notified |-> {},
     \* marked, deleted: the ids of the notifications that a completed markAsRead
     \* or markAllAsRead has written as read, that a completed deleteNotification
     \* has written away
     marked |-> {}, deleted |-> {}]

\* nobody is logged in, no registered user is loaded, no screen has loaded a list
NoMem ==
    [user |-> Null, registeredUsers |-> << >>,
     adminAppointments |-> << >>, doctorAppointments |-> << >>]

\* the pcs at which a task waits for AsyncStorage
IoPcs == {"get_io", "set_io", "rm_io", "clr_io", "aget_io", "aset_io",
          "araw_io", "arm_io"}
\* the pcs at which a task waits to be resumed
RetPcs == {"get_hit", "get_ret", "set_ret", "rm_ret", "clr_ret", "aget_ret",
           "aset_ret", "arm_ret", "settled"}

----------------------------------------------------------------------------
(* storageService's basic operations, each cut at its await *)

\* getItem, storage.ts:90-101: the cache check, up to `await AsyncStorage.getItem(key)`
GetItemCall(c, tr, key, defaultValue) ==
    LET cached == c[key] IN
    IF CacheValid(cached, now)
    THEN [c |-> c,
          t |-> [tr EXCEPT !.pc = "get_hit", !.key = key, !.dflt = defaultValue,
                           !.raw = Resolved(cached.data),
                           !.seen = cached, !.t0 = now]]
    ELSE [c |-> [c EXCEPT ![key] = NoEntry],
          t |-> [tr EXCEPT !.pc = "get_io", !.key = key, !.dflt = defaultValue,
                           !.seen = cached, !.t0 = now]]

\* getItem, storage.ts:102-113: after the await
GetItemReturn(c, tr) ==
    LET stored == tr.raw.v IN
    IF tr.pc = "get_hit" THEN [c |-> c, out |-> Returned(tr.raw.v)]
    ELSE IF ~tr.raw.ok THEN [c |-> c, out |-> Returned(DefaultOrNull(tr.dflt))]
    ELSE IF Truthy(stored)
    THEN IF ParseThrows(stored)
         THEN [c |-> c, out |-> Returned(DefaultOrNull(tr.dflt))]
         ELSE [c |-> [c EXCEPT ![tr.key] = CacheItem(JSONparse(stored), now, 0)],
               out |-> Returned(JSONparse(stored))]
    ELSE [c |-> c, out |-> Returned(DefaultOrNull(tr.dflt))]

\* setItem, storage.ts:66-69: up to `await AsyncStorage.setItem(key, serializedValue)`
SetItemCall(c, tr, key, value, expiryMinutes) ==
    [c |-> c,
     t |-> [tr EXCEPT !.pc = "set_io", !.key = key, !.val = value,
                      !.ttl = expiryMinutes]]

\* setItem with `this.cache.set` moved before the await
SetItemReturnCacheFirst(c, tr) ==
    [c |-> [c EXCEPT ![tr.key] =
               CacheItem(tr.val, now, ExpiryOf(tr.ttl, now))],
     out |-> IF tr.raw.ok THEN Returned(Undefined) ELSE Threw]

\* setItem, storage.ts:71-80: after the await
SetItemReturn(c, tr) ==
    IF tr.raw.ok
    THEN [c |-> [c EXCEPT ![tr.key] =
                    CacheItem(tr.val, now, ExpiryOf(tr.ttl, now))],
          out |-> Returned(Undefined)]
    ELSE [c |-> c, out |-> Threw]

\* removeItem, storage.ts:120-122
RemoveItemCall(c, tr, key) ==
    [c |-> c, t |-> [tr EXCEPT !.pc = "rm_io", !.key = key]]

\* removeItem, storage.ts:123-127
RemoveItemReturn(c, tr) ==
    IF tr.raw.ok
    THEN [c |-> [c EXCEPT ![tr.key] = NoEntry], out |-> Returned(Undefined)]
    ELSE [c |-> c, out |-> Threw]

\* clearAll, storage.ts:133-135
ClearAllCall(c, tr) ==
    [c |-> c, t |-> [tr EXCEPT !.pc = "clr_io"]]

\* clearAll, storage.ts:136-140
ClearAllReturn(c, tr) ==
    IF tr.raw.ok
    THEN [c |-> [k \in STORAGE_KEYS |-> NoEntry], out |-> Returned(Undefined)]
    ELSE [c |-> c, out |-> Threw]


(* AsyncStorage used directly, as notificationService does *)

\* `await AsyncStorage.getItem(key)`
AsyncGetCall(c, tr, key) ==
    [c |-> c, t |-> [tr EXCEPT !.pc = "aget_io", !.key = key]]

\* `await AsyncStorage.setItem(key, JSON.stringify(value))`
AsyncSetCall(c, tr, key, value) ==
    [c |-> c, t |-> [tr EXCEPT !.pc = "aset_io", !.key = key, !.val = value]]

\* `await AsyncStorage.setItem(key, text)`, the text stored as it is
AsyncSetRawCall(c, tr, key, text) ==
    [c |-> c, t |-> [tr EXCEPT !.pc = "araw_io", !.key = key, !.val = text]]

\* `await AsyncStorage.removeItem(key)`
AsyncRemoveCall(c, tr, key) ==
    [c |-> c, t |-> [tr EXCEPT !.pc = "arm_io", !.key = key]]

\* an awaited AsyncStorage promise settles: its value, or the rejection is thrown
AsyncReturn(c, tr) ==
    [c |-> c, out |-> IF tr.raw.ok THEN Returned(tr.raw.v) ELSE Threw]

\* an async function that ended before any await: its promise settles
Settle(c, tr, out) ==
    [c |-> c, t |-> [tr EXCEPT !.pc = "settled", !.acc = out]]

\* the code of the awaited operation that runs when the task is resumed
PrimReturn(c, tr) ==
    CASE tr.pc \in {"get_hit", "get_ret"} -> GetItemReturn(c, tr)
      [] tr.pc = "set_ret" -> SetItemReturn(c, tr)
      [] tr.pc = "rm_ret" -> RemoveItemReturn(c, tr)
      [] tr.pc = "clr_ret" -> ClearAllReturn(c, tr)
      [] tr.pc \in {"aget_ret", "aset_ret", "arm_ret"} -> AsyncReturn(c, tr)
      [] OTHER -> [c |-> c, out |-> tr.acc]

\* a task's next position: the call goes on (Go) or ends (Fin)
Go(x) == [c |-> x.c, t |-> x.t, done |-> FALSE, out |-> Returned(None)]
Fin(c, out) == [c |-> c, t |-> Idle, done |-> TRUE, out |-> out]


----------------------------------------------------------------------------
(* Arrays and objects *)

EmptyArray == Arr(<< >>)

\* array.map(f) and array.filter(test) are written with 1..Len and SelectSeq

\* `{ ...target, ...source }`
Spread(target, source) ==
    [f \in DOMAIN target \cup DOMAIN source |->
        IF f \in DOMAIN source THEN source[f] ELSE target[f]]

\* `object.field`, of a value that is neither null nor undefined
Prop(v, field) ==
    IF v.t = "object" /\ field \in DOMAIN v.o THEN v.o[field] ELSE Undefined


----------------------------------------------------------------------------
(* The repositories of storageService: storage.ts:147-178 *)

\* the key of the collection a repository method works on
RepoKey(op) ==
    CASE op \in {"getAppointments", "addAppointment", "updateAppointment",
                 "deleteAppointment"} -> APPOINTMENTS
      [] op \in {"getRegisteredUsers", "addUser"} -> REGISTERED_USERS
      [] op \in {"getNotifications", "addNotification"} -> NOTIFICATIONS
      [] OTHER -> APP_SETTINGS

\* storage.ts:151, 169, 177: `[...items, item]`
Appended(items, item) == Append(items, item)

\* storage.ts:155: `appointments.map(apt => apt.id === appointmentId ? { ...apt, ...updates } : apt)`
Updated(appointments, appointmentId, updates) ==
    [i \in 1..Len(appointments) |->
        IF appointments[i].id = appointmentId
        THEN Spread(appointments[i], updates)
        ELSE appointments[i]]

\* storage.ts:160 and part_004:144: `items.filter(x => x.id !== id)`
Filtered(items, id) ==
    LET Keep(x) == x.id # id IN SelectSeq(items, Keep)

\* storage.ts:247, the settings getAppSettings falls back to
defaultSettings ==
    Obj([theme |-> "light", notifications |-> TRUE, language |-> "pt-BR",
         autoBackup |-> TRUE])

\* the repository methods after their `await this.getX()`: the new collection
\* they hand to saveX
RepoWrite(tr, items) ==
    CASE tr.op \in {"addAppointment", "addUser", "addNotification"} ->
             Appended(items, tr.arg.item)
      [] tr.op = "updateAppointment" ->
             Updated(items, tr.arg.id, tr.arg.updates)
      [] OTHER -> Filtered(items, tr.arg.id)

\* addAppointment, updateAppointment, deleteAppointment, addUser, addNotification:
\* stage 0 is resumed with what getX returned, stage 1 when saveX has ended
RepoAfter(c, tr, out) ==
    IF tr.stage = 0
    THEN IF out.v.t # "array" THEN Fin(c, Threw)
         ELSE Go(SetItemCall(c, [tr EXCEPT !.stage = 1, !.read = out.v],
                             RepoKey(tr.op), Arr(RepoWrite(tr, out.v.a)), 0))
    ELSE Fin(c, out)


----------------------------------------------------------------------------
(* Backup and restore: storage.ts:186-218 *)

EmptyObject == Obj([f \in {} |-> Undefined])

\* the four sections, in the order createBackup reads and restoreFromBackup writes
SectionKeys == <<APPOINTMENTS, NOTIFICATIONS, REGISTERED_USERS, APP_SETTINGS>>
SectionNames == <<"appointments", "notifications", "registeredUsers", "settings">>
\* storage.ts:189-192 and 209-212: `[]` for the collections, `{}` for the settings
SectionDefaults == <<EmptyArray, EmptyArray, EmptyArray, EmptyObject>>
NumSections == Len(SectionKeys)

\* `new Date(ms).toISOString()` and `new Date(iso).getTime()`
ToISOString(ms) == [iso |-> ms]
GetTime(date) == date.iso

\* storage.ts:188-194, `{ timestamp: new Date().toISOString(), data: backupData }`
BackupOf(sections, time) ==
    Obj([timestamp |-> ToISOString(time),
         data |-> Obj([appointments |-> sections[1],
                       notifications |-> sections[2],
                       registeredUsers |-> sections[3],
                       settings |-> sections[4]])])

\* createBackup, storage.ts:186-189: up to the first `await this.getItem`
CreateBackupCall(c, tr) ==
    GetItemCall(c, [tr EXCEPT !.stage = 1, !.acc = << >>],
                SectionKeys[1], SectionDefaults[1])

\* createBackup, storage.ts:189-198: resumed with the section an inner getItem returned
CreateBackupAfter(c, tr, out) ==
    LET sections == Append(tr.acc, out.v) IN
    IF tr.stage < NumSections
    THEN Go(GetItemCall(c, [tr EXCEPT !.stage = tr.stage + 1, !.acc = sections],
                        SectionKeys[tr.stage + 1], SectionDefaults[tr.stage + 1]))
    ELSE Fin(c, Returned(JSONstringify(BackupOf(sections, now))))

\* storage.ts:209-212, `backup.data.<section> || <default>`
SectionValue(data, i) == OrElse(Prop(data, SectionNames[i]), SectionDefaults[i])

\* restoreFromBackup, storage.ts:208-213: `if (backup.data)`, up to the first
\* `await this.setItem`; reading `.data` of null throws a TypeError
RestoreApply(c, tr, backup) ==
    IF backup.t \in {"null", "undefined"} THEN Settle(c, tr, Threw)
    ELSE IF Truthy(Prop(backup, "data"))
    THEN SetItemCall(c, [tr EXCEPT !.stage = 1, !.acc = Prop(backup, "data")],
                     SectionKeys[1], SectionValue(Prop(backup, "data"), 1), 0)
    ELSE Settle(c, tr, Returned(Undefined))

\* restoreFromBackup, storage.ts:205-207 and 214-217: `JSON.parse(backupString)`
\* inside the try, whose catch rethrows
RestoreCallLenient(c, tr, backupString) ==
    IF ParseThrows(backupString)
    THEN RestoreApply(c, tr, Obj([data |-> Obj([appointments |-> EmptyArray])]))
    ELSE RestoreApply(c, tr, JSONparse(backupString))
RestoreCall(c, tr, backupString) ==
    IF ParseThrows(backupString) THEN Settle(c, tr, Threw)
    ELSE RestoreApply(c, tr, JSONparse(backupString))

\* restoreFromBackup, storage.ts:209-217: resumed when an inner setItem has ended
RestoreAfter(c, tr, out) ==
    IF tr.pc = "settled" \/ out.threw THEN Fin(c, out)
    ELSE IF tr.stage < NumSections
    THEN Go(SetItemCall(c, [tr EXCEPT !.stage = tr.stage + 1],
                        SectionKeys[tr.stage + 1],
                        SectionValue(tr.acc, tr.stage + 1), 0))
    ELSE Fin(c, Returned(Undefined))


----------------------------------------------------------------------------
(* notificationService: part_004:47-164.  It keeps the notifications under *)
(* the same key as storageService but goes to AsyncStorage itself.         *)

\* part_004:40
STORAGE_KEY == NOTIFICATIONS

\* `Date.now().toString()`
NumberToString(n) == [digits |-> n]

\* part_004:57, `stored ? JSON.parse(stored) : []`, for a text JSON.parse accepts
AllNotifications(stored) ==
    IF Truthy(stored) THEN JSONparse(stored).a ELSE << >>

\* whether part_004:57 throws
AllNotificationsThrows(stored) == Truthy(stored) /\ ParseThrows(stored)

\* part_004:60-62, `.sort((a, b) => getTime(b.createdAt) - getTime(a.createdAt))`:
\* newest first, equal dates in their stored order
RECURSIVE SortNewestFirst(_)
SortNewestFirst(s) ==
    IF s = << >> THEN << >>
    ELSE LET x == Head(s)
             rest == SortNewestFirst(Tail(s))
             Newer(n) == GetTime(n.createdAt) > GetTime(x.createdAt)
             k == Len(SelectSeq(rest, Newer))
         IN SubSeq(rest, 1, k) \o <<x>> \o SubSeq(rest, k + 1, Len(rest))

\* part_004:60, `allNotifications.filter(n => n.userId === userId)`
OfAnyUser(allNotifications, userId) == allNotifications
OfUser(allNotifications, userId) ==
    LET Mine(n) == n.userId = userId IN SelectSeq(allNotifications, Mine)

\* getNotifications, part_004:53-67, resumed with what AsyncStorage.getItem answered
GetNotificationsResult(out, userId) ==
    IF out.threw \/ AllNotificationsThrows(out.v) THEN << >>
    ELSE SortNewestFirst(OfUser(AllNotifications(out.v), userId))

\* getUnreadCount, part_004:156-164: `notifications.filter(n => !n.read).length`
UnreadCount(notifications) ==
    LET Unread(n) == ~n.read IN Len(SelectSeq(notifications, Unread))

\* part_004:79-84, the notification createNotification builds
NewNotification(notification, time) ==
    Spread(notification,
           [id |-> NumberToString(time), createdAt |-> ToISOString(time),
            read |-> FALSE])

\* part_004:104-106, markAsRead's map
MarkedRead(allNotifications, notificationId) ==
    [i \in 1..Len(allNotifications) |->
        IF allNotifications[i].id = notificationId
        THEN Spread(allNotifications[i], [read |-> TRUE])
        ELSE allNotifications[i]]

\* part_004:124-126, markAllAsRead's map
AllMarkedRead(allNotifications, userId) ==
    [i \in 1..Len(allNotifications) |->
        IF allNotifications[i].userId = userId
        THEN Spread(allNotifications[i], [read |-> TRUE])
        ELSE allNotifications[i]]

\* the list a mutating method of notificationService writes back
NotificationsWrite(tr, allNotifications) ==
    CASE tr.op = "createNotification" ->
             Append(allNotifications, NewNotification(tr.arg.notification, now))
      [] tr.op = "markAsRead" -> MarkedRead(allNotifications, tr.arg.id)
      [] tr.op = "markAllAsRead" -> AllMarkedRead(allNotifications, tr.arg.userId)
      [] OTHER -> Filtered(allNotifications, tr.arg.id)

\* createNotification, markAsRead, markAllAsRead, deleteNotification
\* (part_004:73-149): stage 0 is resumed with the stored text, stage 1 when the
\* write has ended; the catch logs whatever was thrown and the call returns
NotificationsAfter(c, tr, out) ==
    IF tr.stage = 0 /\ ~out.threw /\ ~AllNotificationsThrows(out.v)
    THEN Go(AsyncSetCall(c, [tr EXCEPT !.stage = 1,
                                       !.read = Arr(AllNotifications(out.v))],
                         STORAGE_KEY,
                         Arr(NotificationsWrite(tr, AllNotifications(out.v)))))
    ELSE Fin(c, Returned(Undefined))


----------------------------------------------------------------------------
(* statisticsService: storage.ts:325-466.  It reads AsyncStorage itself.   *)
(* A date is a string, kept as the sequence of its characters (or a value  *)
(* that is no string); a percentage is kept as the exact fraction          *)
(* num / den, the rounding of the floating-point division left out.        *)

DateText(chars) == [t |-> "string", chars |-> chars]

\* the text `${x}` gives for an undefined x
UndefinedText == <<"u", "n", "d", "e", "f", "i", "n", "e", "d">>

\* `text.split(sep)`
RECURSIVE Split(_, _)
Split(chars, sep) ==
    IF \A i \in 1..Len(chars) : chars[i] # sep THEN <<chars>>
    ELSE LET k == CHOOSE i \in 1..Len(chars) :
                      chars[i] = sep /\ \A j \in 1..(i - 1) : chars[j] # sep
         IN <<SubSeq(chars, 1, k - 1)>>
                \o Split(SubSeq(chars, k + 1, Len(chars)), sep)

\* storage.ts:362, whether `appointment.date.split('/')` throws a TypeError
SplitThrows(date) == date.t # "string"

\* storage.ts:362-363: `const [day, month, year] = date.split('/')` and
\* `${month}/${year}`
MonthKey(date) ==
    LET parts == Split(date.chars, "/")
        month == IF Len(parts) >= 2 THEN parts[2] ELSE UndefinedText
        year == IF Len(parts) >= 3 THEN parts[3] ELSE UndefinedText
    IN month \o <<"/">> \o year

\* storage.ts:355 and 364: `counts[key] = (counts[key] || 0) + 1`
Incremented(counts, key) ==
    [k \in DOMAIN counts \cup {key} |->
        IF k = key
        THEN (IF key \in DOMAIN counts THEN counts[key] ELSE 0) + 1
        ELSE counts[k]]

EmptyCounts == [k \in {} |-> 0]

\* storage.ts:353-356, the forEach that fills `specialties`
RECURSIVE Specialties(_)
Specialties(appointments) ==
    IF appointments = << >> THEN EmptyCounts
    ELSE LET n == Len(appointments) IN
         Incremented(Specialties(SubSeq(appointments, 1, n - 1)),
                     appointments[n].specialty)

\* storage.ts:359-368, the forEach that fills `appointmentsByMonth`; its catch
\* skips the appointment whose date made split throw
RECURSIVE AppointmentsByMonth(_)
AppointmentsByMonth(appointments) ==
    IF appointments = << >> THEN EmptyCounts
    ELSE LET n == Len(appointments)
             counts == AppointmentsByMonth(SubSeq(appointments, 1, n - 1))
         IN IF SplitThrows(appointments[n].date) THEN counts
            ELSE Incremented(counts, MonthKey(appointments[n].date))

\* `appointments.filter(a => a.status === status).length`
StatusCount(appointments, status) ==
    LET Is(a) == a.status = status IN Len(SelectSeq(appointments, Is))

\* `new Set(values)`: the values are added one by one
RECURSIVE NewSet(_)
NewSet(values) ==
    IF values = << >> THEN {}
    ELSE NewSet(SubSeq(values, 1, Len(values) - 1)) \cup {values[Len(values)]}

\* storage.ts:347-350
TotalPatients(appointments) ==
    Cardinality(NewSet([i \in 1..Len(appointments) |-> appointments[i].patientId]))
TotalDoctors(appointments) ==
    Cardinality(NewSet([i \in 1..Len(appointments) |-> appointments[i].doctorId]))

\* storage.ts:372, `total > 0 ? (count / total) * 100 : 0`
Percentage(count, total) ==
    IF total > 0 THEN [num |-> count * 100, den |-> total]
    ELSE [num |-> 0, den |-> 1]

\* storage.ts:371-375, 408-412, 451-455
StatusPercentages(appointments) ==
    [confirmed |-> Percentage(StatusCount(appointments, "confirmed"), Len(appointments)),
     pending |-> Percentage(StatusCount(appointments, "pending"), Len(appointments)),
     cancelled |-> Percentage(StatusCount(appointments, "cancelled"), Len(appointments))]

\* getGeneralStatistics, storage.ts:341-381: what it returns for the list it parsed
GeneralStatistics(appointments) ==
    [totalAppointments |-> Len(appointments),
     confirmedAppointments |-> StatusCount(appointments, "confirmed"),
     pendingAppointments |-> StatusCount(appointments, "pending"),
     cancelledAppointments |-> StatusCount(appointments, "cancelled"),
     totalPatients |-> TotalPatients(appointments),
     totalDoctors |-> TotalDoctors(appointments),
     specialties |-> Specialties(appointments),
     appointmentsByMonth |-> AppointmentsByMonth(appointments),
     statusPercentages |-> StatusPercentages(appointments)]

\* storage.ts:399, `allAppointments.filter(a => a.doctorId === doctorId)`
OfAnyDoctor(allAppointments, doctorId) == allAppointments
OfDoctor(allAppointments, doctorId) ==
    LET Mine(a) == a.doctorId = doctorId IN SelectSeq(allAppointments, Mine)

\* storage.ts:436, `allAppointments.filter(a => a.patientId === patientId)`
OfPatient(allAppointments, patientId) ==
    LET Mine(a) == a.patientId = patientId IN SelectSeq(allAppointments, Mine)

\* getDoctorStatistics, storage.ts:399-417
DoctorStatistics(allAppointments, doctorId) ==
    LET doctorAppointments == OfDoctor(allAppointments, doctorId) IN
    [totalAppointments |-> Len(doctorAppointments),
     confirmedAppointments |-> StatusCount(doctorAppointments, "confirmed"),
     pendingAppointments |-> StatusCount(doctorAppointments, "pending"),
     cancelledAppointments |-> StatusCount(doctorAppointments, "cancelled"),
     totalPatients |-> TotalPatients(doctorAppointments),
     statusPercentages |-> StatusPercentages(doctorAppointments)]

\* getPatientStatistics, storage.ts:436-460
PatientStatistics(allAppointments, patientId) ==
    LET patientAppointments == OfPatient(allAppointments, patientId) IN
    [totalAppointments |-> Len(patientAppointments),
     confirmedAppointments |-> StatusCount(patientAppointments, "confirmed"),
     pendingAppointments |-> StatusCount(patientAppointments, "pending"),
     cancelledAppointments |-> StatusCount(patientAppointments, "cancelled"),
     totalDoctors |-> TotalDoctors(patientAppointments),
     specialties |-> Specialties(patientAppointments),
     statusPercentages |-> StatusPercentages(patientAppointments)]

StatisticsOps ==
    {"getGeneralStatistics", "getDoctorStatistics", "getPatientStatistics"}

\* storage.ts:335, `data ? JSON.parse(data) : []`, and whether it throws
ParsedOrEmpty(data) == IF Truthy(data) THEN JSONparse(data).a ELSE << >>
ParsedOrEmptyThrows(data) == Truthy(data) /\ ParseThrows(data)

\* the three methods of statisticsService, resumed with what an awaited
\* AsyncStorage.getItem answered; their catch logs and rethrows
StatisticsAfter(c, tr, out) ==
    IF out.threw \/ ParsedOrEmptyThrows(out.v) THEN Fin(c, Threw)
    ELSE IF tr.op = "getGeneralStatistics"
    THEN IF tr.stage = 0
         THEN Go(AsyncGetCall(c, [tr EXCEPT !.stage = 1,
                                            !.read = Arr(ParsedOrEmpty(out.v))],
                              REGISTERED_USERS))
         ELSE Fin(c, Returned(Obj(GeneralStatistics(tr.read.a))))
    ELSE IF tr.op = "getDoctorStatistics"
    THEN Fin(c, Returned(Obj(DoctorStatistics(ParsedOrEmpty(out.v),
                                              tr.arg.doctorId))))
    ELSE Fin(c, Returned(Obj(PatientStatistics(ParsedOrEmpty(out.v),
                                               tr.arg.patientId))))

----------------------------------------------------------------------------
(* The appointments: createAppointment (appointmentService.ts:35-70, the    *)
(* same code as handleCreateAppointment, part_010:612-660), the admin       *)
(* dashboard's handleUpdateStatus and loadData (AdminDashboardScreen.tsx)   *)
(* and the doctor dashboard's handleConfirmAction and loadAppointments      *)
(* (DoctorDashboardScreen.tsx).  All of them go to AsyncStorage themselves. *)
(* A screen's `appointments` state is mem.adminAppointments or              *)
(* mem.doctorAppointments; the reads that follow setAppointments in         *)
(* loadData and loadAppointments (users, statistics) are left out.          *)

\* appointmentService.ts:50-60, the appointment createAppointment builds; name,
\* date, time and specialty are left out
NewAppointment(user, selectedDoctor, time) ==
    [id |-> NumberToString(time), patientId |-> user.id,
     doctorId |-> selectedDoctor.id, status |-> "pending"]

\* part_004:198-206, what notifyNewAppointment passes to createNotification
NewAppointmentNotice(doctorId, appointmentDetails) ==
    [userId |-> doctorId, type |-> "general",
     appointmentId |-> appointmentDetails.id]

\* part_004:172-193, what notifyAppointmentConfirmed and
\* notifyAppointmentCancelled pass to createNotification
StatusNotice(actionType, patientId, appointmentDetails) ==
    [userId |-> patientId,
     type |-> IF actionType = "confirm" THEN "appointment_confirmed"
              ELSE "appointment_cancelled",
     appointmentId |-> appointmentDetails.id]

\* AdminDashboardScreen.tsx:165-167, `{ ...app, status: newStatus }` for the
\* appointment with the id
WithStatus(allAppointments, appointmentId, newStatus) ==
    [i \in 1..Len(allAppointments) |->
        IF allAppointments[i].id = appointmentId
        THEN Spread(allAppointments[i], [status |-> newStatus])
        ELSE allAppointments[i]]

\* DoctorDashboardScreen.tsx:141-151: the status the action gives and, with a
\* reason, `cancelReason`
WithAction(allAppointments, selectedAppointment, actionType, reason) ==
    [i \in 1..Len(allAppointments) |->
        IF allAppointments[i].id = selectedAppointment.id
        THEN Spread(Spread(allAppointments[i],
                           [status |-> IF actionType = "confirm"
                                       THEN "confirmed" ELSE "cancelled"]),
                    IF Truthy(reason) THEN [cancelReason |-> reason]
                    ELSE [f \in {} |-> Undefined])
        ELSE allAppointments[i]]

DashOps ==
    {"createAppointment", "handleUpdateStatus", "handleConfirmAction",
     "loadData", "loadAppointments"}

\* the stage at which loadData or loadAppointments waits for the stored list
LoadStage == 4

\* every one of them starts with `await AsyncStorage.getItem('@MedicalApp:appointments')`
DashBegin(c, tr, call) ==
    AsyncGetCall(c, [tr EXCEPT !.stage = IF call.op \in {"loadData", "loadAppointments"}
                                        THEN LoadStage ELSE 0],
                 APPOINTMENTS)

\* `loadData()` or `loadAppointments()`, called and not awaited at the end of a
\* handler
Reload(c, tr) == Go(AsyncGetCall(c, [tr EXCEPT !.stage = LoadStage], APPOINTMENTS))

\* createNotification (part_004:73-92) called inside another method, resumed
\* with the stored notifications: it writes the list with the new one, unless
\* its catch has swallowed an error
InnerCreateNotification(c, tr, out, notification) ==
    Go(AsyncSetCall(c, [tr EXCEPT !.stage = 3], STORAGE_KEY,
                    Arr(Append(AllNotifications(out.v),
                               NewNotification(notification, now)))))
InnerCreateSwallows(out) == out.threw \/ AllNotificationsThrows(out.v)

\* createAppointment, appointmentService.ts:46-69; it has no catch
CreateAppointmentAfter(c, tr, out) ==
    CASE tr.stage = 0 ->
             IF out.threw \/ ParsedOrEmptyThrows(out.v) THEN Fin(c, Threw)
             ELSE LET new == NewAppointment(tr.arg.user, tr.arg.selectedDoctor, now)
                  IN Go(AsyncSetCall(c, [tr EXCEPT !.stage = 1, !.acc = new,
                                                   !.t0 = now],
                                     APPOINTMENTS,
                                     Arr(Append(ParsedOrEmpty(out.v), new))))
      [] tr.stage = 1 ->
             IF out.threw THEN Fin(c, Threw)
             ELSE Go(AsyncGetCall(c, [tr EXCEPT !.stage = 2], STORAGE_KEY))
      [] tr.stage = 2 /\ ~InnerCreateSwallows(out) ->
             InnerCreateNotification(c, tr, out,
                 NewAppointmentNotice(tr.arg.selectedDoctor.id, tr.acc))
      [] OTHER -> Fin(c, Returned(Undefined))

\* handleUpdateStatus, AdminDashboardScreen.tsx:159-176; the catch logs
HandleUpdateStatusAfter(c, tr, out) ==
    CASE tr.stage = 0 /\ ~out.threw /\ Truthy(out.v) /\ ~ParseThrows(out.v) ->
             Go(AsyncSetCall(c, [tr EXCEPT !.stage = 1], APPOINTMENTS,
                             Arr(WithStatus(JSONparse(out.v).a,
                                            tr.arg.appointmentId,
                                            tr.arg.newStatus))))
      [] tr.stage = 1 /\ ~out.threw -> Reload(c, tr)
      [] OTHER -> Fin(c, Returned(Undefined))

\* handleConfirmAction, DoctorDashboardScreen.tsx:133-165; the catch logs
HandleConfirmActionAfter(c, tr, out) ==
    CASE tr.stage = 0 /\ ~out.threw /\ Truthy(out.v) /\ ~ParseThrows(out.v) ->
             Go(AsyncSetCall(c, [tr EXCEPT !.stage = 1], APPOINTMENTS,
                             Arr(WithAction(JSONparse(out.v).a,
                                            tr.arg.selectedAppointment,
                                            tr.arg.actionType, tr.arg.reason))))
      [] tr.stage = 1 /\ ~out.threw ->
             Go(AsyncGetCall(c, [tr EXCEPT !.stage = 2], STORAGE_KEY))
      [] tr.stage = 2 /\ ~InnerCreateSwallows(out) ->
             InnerCreateNotification(c, tr, out,
                 StatusNotice(tr.arg.actionType,
                              tr.arg.selectedAppointment.patientId,
                              tr.arg.selectedAppointment))
      [] tr.stage \in {2, 3} -> Reload(c, tr)
      [] OTHER -> Fin(c, Returned(Undefined))

DashAfter(c, tr, out) ==
    CASE tr.op = "createAppointment" -> CreateAppointmentAfter(c, tr, out)
      [] tr.op = "handleUpdateStatus" -> HandleUpdateStatusAfter(c, tr, out)
      [] tr.op = "handleConfirmAction" -> HandleConfirmActionAfter(c, tr, out)
      [] OTHER -> Fin(c, Returned(Undefined))

\* AdminDashboardScreen.tsx:131-132 and DoctorDashboardScreen.tsx:99-105: the
\* screen's list after loadData or loadAppointments has read the stored text
Loaded(tr, out) ==
    tr.stage = LoadStage /\ ~out.threw /\ Truthy(out.v) /\ ~ParseThrows(out.v)


----------------------------------------------------------------------------
(* authService (part_005), AuthProvider (part_003) and saveUserProfile      *)
(* (profileService.ts).  They read and write AsyncStorage directly.        *)
(* mem.user is AuthProvider's `user`, mem.registeredUsers is authService's *)
(* module-level list.  A user's `name` and `image` are left out.           *)

\* the ids 'admin', '1', '2', '3' and `patient-${n}`
UserId(kind, n) == [kind |-> kind, n |-> n]

\* part_005:35-39
mockDoctors ==
    <<[id |-> UserId("", 1), email |-> "joao@example.com", role |-> "doctor"],
      [id |-> UserId("", 2), email |-> "maria@example.com", role |-> "doctor"],
      [id |-> UserId("", 3), email |-> "pedro@example.com", role |-> "doctor"]>>

\* part_005:42-48
mockAdmin ==
    [id |-> UserId("admin", 0), email |-> "admin@example.com", role |-> "admin"]

\* the password of the mocked accounts, part_005:70, 75
MockPassword == "123456"

\* the texts 'admin-token', `doctor-token-${id}`, `patient-token-${id}`
TokenText(prefix, id) == [t |-> "string", s |-> prefix, id |-> id]

\* `const { password, ...patientWithoutPassword } = patient`
WithoutPassword(patient) ==
    [f \in DOMAIN patient \ {"password"} |-> patient[f]]

\* `{ user, token }`
AuthResponse(user, token) == Obj([user |-> Obj(user), token |-> token])

\* authService.signIn, part_005:68-93
AuthServiceSignIn(registeredUsers, credentials) ==
    LET IsDoctor(d) == d.email = credentials.email
                          /\ credentials.password = MockPassword
        doctors == SelectSeq(mockDoctors, IsDoctor)
        IsPatient(q) == q.email = credentials.email
        patients == SelectSeq(registeredUsers, IsPatient)
    IN IF credentials.email = mockAdmin.email
          /\ credentials.password = MockPassword
       THEN Returned(AuthResponse(mockAdmin, TokenText("admin-token", mockAdmin.id)))
       ELSE IF doctors # << >>
       THEN Returned(AuthResponse(Head(doctors),
                                  TokenText("doctor-token-", Head(doctors).id)))
       ELSE IF patients # << >> /\ credentials.password = Head(patients).password
       THEN Returned(AuthResponse(WithoutPassword(Head(patients)),
                                  TokenText("patient-token-", Head(patients).id)))
       ELSE Threw

\* authService.register, part_005:103-107: the email is already in use
EmailInUse(registeredUsers, email) ==
    \/ \E i \in 1..Len(mockDoctors) : mockDoctors[i].email = email
    \/ mockAdmin.email = email
    \/ \E i \in 1..Len(registeredUsers) : registeredUsers[i].email = email

\* authService.register, part_005:112-119
NewPatient(registeredUsers, data) ==
    [id |-> UserId("patient-", Len(registeredUsers) + 1), email |-> data.email,
     role |-> "patient", password |-> data.password]

AuthOps ==
    {"signIn", "register", "signOut", "updateUser", "saveUserProfile",
     "loadRegisteredUsers"}

\* the in-memory state once a call has run up to its first await:
\* part_005:122 `registeredUsers.push(newPatient)`, part_003:150 `setUser(updatedUser)`
MemAtStart(call) ==
    CASE call.op = "register"
             /\ ~EmailInUse(mem.registeredUsers, call.data.email) ->
             [mem EXCEPT !.registeredUsers =
                             Append(@, NewPatient(@, call.data))]
      [] call.op \in {"updateUser", "saveUserProfile"} ->
             [mem EXCEPT !.user = Obj(call.user)]
      [] OTHER -> mem

\* a call of AuthProvider, or saveUserProfile, up to its first await
AuthBegin(c, tr, call) ==
    CASE \* part_003:105, authService.signIn has no await
         call.op = "signIn" ->
             Settle(c, tr, AuthServiceSignIn(mem.registeredUsers, call.credentials))
         \* part_003:121, part_005:103-125
      [] call.op = "register" ->
             IF EmailInUse(mem.registeredUsers, call.data.email)
             THEN Settle(c, tr, Threw)
             ELSE LET newPatient == NewPatient(mem.registeredUsers, call.data) IN
                  AsyncSetCall(c,
                      [tr EXCEPT !.acc = Returned(AuthResponse(
                           WithoutPassword(newPatient),
                           TokenText("patient-token-", newPatient.id)))],
                      REGISTERED_USERS,
                      Arr(Append(mem.registeredUsers, newPatient)))
         \* part_003:135, part_005:137
      [] call.op = "signOut" -> AsyncRemoveCall(c, tr, USER)
         \* part_003:150-152; profileService.ts:18
      [] call.op \in {"updateUser", "saveUserProfile"} ->
             AsyncSetCall(c, tr, USER, Obj(call.user))
         \* part_005:186
      [] OTHER -> AsyncGetCall(c, tr, REGISTERED_USERS)

\* the keys signOut removes, in this order: part_005:137-138, part_003:139-140
SignOutKeys == <<USER, TOKEN, USER, TOKEN>>

\* the in-memory state once a resumed call has run up to its next await or to its
\* end: part_003:107 and 123 `setUser(response.user)`, part_003:137
\* `setUser(null)`, part_005:187-189 `registeredUsers = JSON.parse(usersJson)`
MemAfter(tr, out) ==
    CASE tr.op \in {"signIn", "register"} /\ tr.stage = 0 /\ ~out.threw ->
             [mem EXCEPT !.user = tr.acc.v.o.user]
      [] tr.op = "signOut" /\ tr.stage = 1 /\ ~out.threw ->
             [mem EXCEPT !.user = Null]
      [] tr.op = "loadRegisteredUsers" /\ ~out.threw /\ Truthy(out.v)
             /\ ~ParseThrows(out.v) ->
             [mem EXCEPT !.registeredUsers = JSONparse(out.v).a]
      [] tr.op \in {"handleUpdateStatus", "loadData"} /\ Loaded(tr, out) ->
             [mem EXCEPT !.adminAppointments = JSONparse(out.v).a]
      [] tr.op \in {"handleConfirmAction", "loadAppointments"}
             /\ Loaded(tr, out) ->
             [mem EXCEPT !.doctorAppointments =
                             OfDoctor(JSONparse(out.v).a, tr.arg.user.id)]
      [] OTHER -> mem

\* a resumed call of AuthProvider, or saveUserProfile, up to its next await or to
\* its end
AuthAfter(c, tr, out) ==
    CASE \* part_003:102-115, 118-129: the catch rethrows
         tr.op \in {"signIn", "register"} ->
             IF out.threw THEN Fin(c, Threw)
             ELSE IF tr.stage = 0
             THEN Go(AsyncSetCall(c, [tr EXCEPT !.stage = 1], USER,
                                  tr.acc.v.o.user))
             ELSE IF tr.stage = 1
             THEN Go(AsyncSetRawCall(c, [tr EXCEPT !.stage = 2], TOKEN,
                                     tr.acc.v.o.token))
             ELSE Fin(c, Returned(Undefined))
         \* part_003:132-144: the catch logs
      [] tr.op = "signOut" ->
             IF out.threw \/ tr.stage = 3 THEN Fin(c, Returned(Undefined))
             ELSE Go(AsyncRemoveCall(c, [tr EXCEPT !.stage = tr.stage + 1],
                                     SignOutKeys[tr.stage + 2]))
         \* part_003:147-157: the catch rethrows
      [] tr.op = "updateUser" ->
             Fin(c, IF out.threw THEN Threw ELSE Returned(Undefined))
         \* profileService.ts:18-21
      [] tr.op = "saveUserProfile" ->
             IF out.threw THEN Fin(c, Threw)
             ELSE IF tr.stage = 0
             THEN Go(AsyncSetCall(c, [tr EXCEPT !.stage = 1], USER,
                                  Obj(tr.arg.user)))
             ELSE Fin(c, Returned(Undefined))
         \* part_005:184-193: the catch logs
      [] OTHER -> Fin(c, Returned(Undefined))

----------------------------------------------------------------------------
(* Calls *)

SimpleOps ==
    {"getItem", "setItem", "removeItem", "clearAll", "getAppointments",
     "getRegisteredUsers", "getNotifications", "getAppSettings"}
RepoMutators ==
    {"addAppointment", "updateAppointment", "deleteAppointment", "addUser",
     "addNotification"}
RepoAdders == {"addAppointment", "addUser", "addNotification"}

\* a call runs up to its first await
Begin(c, tr, call) ==
    CASE call.op = "getItem" -> GetItemCall(c, tr, call.key, call.defaultValue)
      [] call.op = "setItem" ->
             SetItemCall(c, tr, call.key, call.value, call.expiryMinutes)
      [] call.op = "removeItem" -> RemoveItemCall(c, tr, call.key)
      [] call.op = "clearAll" -> ClearAllCall(c, tr)
      \* storage.ts:147, 165, 173: `this.getItem(STORAGE_KEYS.X, [])`
      [] call.op \in {"getAppointments", "getRegisteredUsers", "getNotifications"}
             \cup RepoMutators ->
             GetItemCall(c, tr, RepoKey(call.op), EmptyArray)
      \* storage.ts:246-249
      [] call.op = "getAppSettings" ->
             GetItemCall(c, tr, APP_SETTINGS, defaultSettings)
      [] call.op \in AuthOps -> AuthBegin(c, tr, call)
      [] call.op \in DashOps -> DashBegin(c, tr, call)
      [] call.op = "createBackup" -> CreateBackupCall(c, tr)
      [] call.op = "restoreFromBackup" -> RestoreCall(c, tr, call.backupString)
      \* storage.ts:334, 395, 432
      [] call.op \in StatisticsOps -> AsyncGetCall(c, tr, APPOINTMENTS)
      \* part_004:55, 75, 100, 120, 140
      [] OTHER -> AsyncGetCall(c, tr, STORAGE_KEY)

\* a resumed call runs from the await it waited at to its next await, or to its end
After(c, tr, out) ==
    CASE tr.op \in SimpleOps -> Fin(c, out)
      [] tr.op \in RepoMutators -> RepoAfter(c, tr, out)
      [] tr.op \in AuthOps -> AuthAfter(c, tr, out)
      [] tr.op \in DashOps -> DashAfter(c, tr, out)
      [] tr.op = "createBackup" -> CreateBackupAfter(c, tr, out)
      [] tr.op = "restoreFromBackup" -> RestoreAfter(c, tr, out)
      [] tr.op \in StatisticsOps -> StatisticsAfter(c, tr, out)
      [] tr.op = "ns.getNotifications" ->
             Fin(c, Returned(Arr(GetNotificationsResult(out, tr.arg.userId))))
      [] tr.op = "getUnreadCount" ->
             Fin(c, Returned(Num(UnreadCount(
                     GetNotificationsResult(out, tr.arg.userId)))))
      [] OTHER -> NotificationsAfter(c, tr, out)

\* getItem run as one step on cache c and medium d: what it returns
GetItemNow(c, d, key, defaultValue) ==
    LET call == GetItemCall(c, Idle, key, defaultValue) IN
    IF call.t.pc = "get_hit" THEN GetItemReturn(call.c, call.t).out.v
    ELSE GetItemReturn(call.c,
             [call.t EXCEPT !.pc = "get_ret", !.raw = Resolved(d[key])]).out.v

\* what the four getters return on cache c and medium d: getAppointments,
\* getNotifications, getRegisteredUsers (storage.ts:147, 173, 165), getAppSettings
Getters(c, d) ==
    <<GetItemNow(c, d, APPOINTMENTS, EmptyArray),
      GetItemNow(c, d, NOTIFICATIONS, EmptyArray),
      GetItemNow(c, d, REGISTERED_USERS, EmptyArray),
      GetItemNow(c, d, APP_SETTINGS, defaultSettings)>>

\* the four sections' stored texts
Sections(d) == [i \in 1..NumSections |-> d[SectionKeys[i]]]


----------------------------------------------------------------------------
(* Steps *)

EmptyCache == [k \in STORAGE_KEYS |-> NoEntry]
EmptyDisk == [k \in STORAGE_KEYS |-> Absent]

Quiet == \A u \in TaskIds : tasks[u].pc = "idle"
OthersIdle(t) == \A u \in TaskIds \ {t} : tasks[u].pc = "idle"

\* history: what a call that starts now may expect from the calls that ended
ExpectAtStart(call) ==
    CASE call.op = "getItem" ->
             LET s == hist.lastSet[call.key] IN
             IF s # None /\ (s.expiry = 0 \/ s.expiry > now)
             THEN [value |-> s.value] ELSE None
      [] call.op = "restoreFromBackup" ->
             IF hist.fresh /\ hist.backup # None
                /\ call.backupString = hist.backup.text
             THEN [source |-> hist.backup.source] ELSE None
      [] OTHER -> None

\* history: the ids a call that starts now is going to remove
DroppedBy(call) ==
    IF call.op = "deleteAppointment" THEN {<<APPOINTMENTS, call.id>>} ELSE {}

\* a service method is called: it runs up to its first await
Start(t, call) ==
    LET tr == [Idle EXCEPT !.op = call.op, !.arg = call,
                           !.expect = ExpectAtStart(call),
                           !.clean = OthersIdle(t),
                           !.prev = Sections(disk),
                           !.gone = call.op = "getItem"
                                        /\ call.key \in hist.removed,
                           !.session = IF call.op \in {"signIn", "register"}
                                       THEN <<disk[USER], disk[TOKEN]>>
                                       ELSE None]
        b == Begin(cache, tr, call)
    IN /\ tasks[t].pc = "idle"
       \* the free task with the least id takes the call
       /\ \A u \in TaskIds : u < t => tasks[u].pc # "idle"
       /\ hist.calls < MaxCalls
       /\ cache' = b.c
       /\ tasks' = [u \in TaskIds |->
                      IF u = t THEN b.t
                      ELSE IF tasks[u].op \in {"createBackup", "restoreFromBackup"}
                      THEN [tasks[u] EXCEPT !.clean = FALSE]
                      ELSE tasks[u]]
       /\ mem' = MemAtStart(call)
       /\ hist' = [hist EXCEPT !.fresh = FALSE,
                               !.dropped = @ \cup DroppedBy(call),
                               !.calls = @ + 1,
                               !.signedOut =
                                   @ /\ call.op \notin {"signIn", "register"}]
       /\ UNCHANGED <<disk, now, last>>

\* AsyncStorage carries out the request a task awaits
DiskAfter(d, tr) ==
    CASE tr.pc \in {"set_io", "aset_io"} ->
             [d EXCEPT ![tr.key] = JSONstringify(tr.val)]
      [] tr.pc = "araw_io" -> [d EXCEPT ![tr.key] = tr.val]
      [] tr.pc \in {"rm_io", "arm_io"} -> [d EXCEPT ![tr.key] = Absent]
      [] tr.pc = "clr_io" -> EmptyDisk
      [] OTHER -> d

\* the pc at which a task waits once its request is answered
RetPc(pc) ==
    CASE pc = "get_io" -> "get_ret"
      [] pc = "set_io" -> "set_ret"
      [] pc = "rm_io" -> "rm_ret"
      [] pc = "clr_io" -> "clr_ret"
      [] pc = "aget_io" -> "aget_ret"
      [] pc = "arm_io" -> "arm_ret"
      [] OTHER -> "aset_ret"

Disk(t) ==
    LET tr == tasks[t] IN
    /\ tr.pc \in IoPcs
    /\ disk' = DiskAfter(disk, tr)
    /\ tasks' = [tasks EXCEPT ![t] =
                    [tr EXCEPT !.pc = RetPc(tr.pc),
                               !.raw = IF tr.pc \in {"get_io", "aget_io"}
                                       THEN Resolved(disk[tr.key])
                                       ELSE Resolved(Undefined),
                               !.before = IF tr.pc \in {"set_io", "aset_io"}
                                          THEN disk[tr.key] ELSE @]]
    /\ UNCHANGED <<cache, mem, now, last, hist>>

\* AsyncStorage rejects the request a task awaits and changes nothing
DiskFail(t) ==
    LET tr == tasks[t] IN
    /\ tr.pc \in IoPcs
    /\ tasks' = [tasks EXCEPT ![t] =
                    [tr EXCEPT !.pc = RetPc(tr.pc), !.raw = Rejected]]
    /\ UNCHANGED <<disk, cache, mem, now, last, hist>>

\* history: the keys whose set or remove ends in the step that resumes tr
SettledKeys(tr) ==
    IF ~tr.raw.ok THEN {}
    ELSE CASE tr.pc \in {"set_ret", "aset_ret", "rm_ret", "arm_ret"} -> {tr.key}
           [] tr.pc = "clr_ret" -> STORAGE_KEYS
           [] OTHER -> {}

\* history after the step that resumes tr and leaves the task at n
HistAfter(tr, n) ==
    [hist EXCEPT
        !.lastSet =
            IF tr.op \in {"setItem", "removeItem", "clearAll"}
            THEN [k \in STORAGE_KEYS |->
                    IF k \in SettledKeys(tr)
                    THEN IF tr.pc = "set_ret"
                         THEN [value |-> tr.val, expiry |-> ExpiryOf(tr.ttl, now)]
                         ELSE None
                    ELSE hist.lastSet[k]]
            ELSE @,
        \* the keys whose last completed write was a removeItem or a clearAll
        !.removed =
            IF tr.pc \in {"rm_ret", "arm_ret", "clr_ret"} THEN @ \cup SettledKeys(tr)
            ELSE @ \ SettledKeys(tr),
        !.added =
            IF n.done /\ ~n.out.threw /\ tr.op \in RepoAdders
            THEN @ \cup {<<RepoKey(tr.op), tr.arg.item.id>>} ELSE @,
        !.backup =
            IF n.done /\ tr.op = "createBackup" /\ tr.clean
            THEN [text |-> n.out.v, source |-> Getters(n.c, disk)] ELSE @,
        !.fresh = n.done /\ tr.op = "clearAll" /\ ~n.out.threw /\ tr.clean,
        !.signedOut =
            \/ @
            \/ /\ n.done /\ tr.op = "signOut" /\ tr.stage = 3 /\ tr.raw.ok
               /\ \A u \in TaskIds : tasks[u].op \notin {"signIn", "register"},
        \* the notifications a createNotification called for an appointment
        \* has stored
        !.notified =
            IF tr.op \in DashOps /\ tr.pc = "aset_ret" /\ tr.key = STORAGE_KEY
               /\ tr.raw.ok
            THEN LET n0 == tr.val.a[Len(tr.val.a)]
                 IN @ \cup {<<n0.type, n0.userId, n0.appointmentId>>}
            ELSE @,
        !.marked =
            IF tr.op \in {"markAsRead", "markAllAsRead"} /\ tr.pc = "aset_ret"
               /\ tr.raw.ok
            THEN @ \cup {tr.val.a[i].id :
                            i \in {j \in 1..Len(tr.val.a) :
                                      IF tr.op = "markAsRead"
                                      THEN tr.val.a[j].id = tr.arg.id
                                      ELSE tr.val.a[j].userId = tr.arg.userId}}
            ELSE @,
        !.deleted =
            IF tr.op = "deleteNotification" /\ tr.pc = "aset_ret" /\ tr.raw.ok
            THEN @ \cup {tr.arg.id}
            ELSE @]

\* a task is resumed: the awaited operation's tail, then the caller's code up to
\* its next await or to its end
Resume(t) ==
    LET tr == tasks[t]
        p == PrimReturn(cache, tr)
        n == After(p.c, tr, p.out)
    IN /\ tr.pc \in RetPcs
       /\ cache' = n.c
       /\ tasks' = [u \in TaskIds |->
                      IF u = t THEN n.t
                      ELSE IF tasks[u].op = "getItem"
                              /\ tasks[u].key \in SettledKeys(tr)
                      THEN [tasks[u] EXCEPT !.clean = FALSE]
                      ELSE tasks[u]]
       /\ last' = IF n.done
                  THEN [op |-> tr.op, arg |-> tr.arg, out |-> n.out,
                        key |-> tr.key, pc |-> tr.pc, val |-> tr.val,
                        raw |-> tr.raw, dflt |-> tr.dflt, seen |-> tr.seen,
                        t0 |-> tr.t0, expect |-> tr.expect, clean |-> tr.clean,
                        read |-> tr.read, before |-> tr.before, prev |-> tr.prev,
                        gone |-> tr.gone, session |-> tr.session,
                        getters |-> Getters(n.c, disk),
                        sections |-> Sections(disk)]
                  ELSE last
       /\ hist' = HistAfter(tr, n)
       /\ mem' = MemAfter(tr, p.out)
       /\ UNCHANGED <<disk, now>>

\* time passes
Tick ==
    /\ now < StartTime + MaxTicks * TickMs
    /\ now' = now + TickMs
    /\ UNCHANGED <<disk, cache, mem, tasks, last, hist>>

\* clearCache, storage.ts:228
clearCache ==
    /\ hist.calls < MaxCalls
    /\ cache' = EmptyCache
    /\ hist' = [hist EXCEPT !.calls = @ + 1]
    /\ UNCHANGED <<disk, mem, now, tasks, last>>

----------------------------------------------------------------------------
(* The key-value store on its own: getItem, setItem, removeItem, clearAll, *)
(* clearCache and the clock.                                               *)

KVKeys == {STATISTICS_CACHE}
KVValues == {Str("v1"), Str("v2")}
KVDefaults == {Undefined, Str("d")}
KVExpiryMinutes == {0, 1}

KVCalls ==
    [op : {"getItem"}, key : KVKeys, defaultValue : KVDefaults]
    \cup [op : {"setItem"}, key : KVKeys, value : KVValues,
          expiryMinutes : KVExpiryMinutes]
    \cup [op : {"removeItem"}, key : KVKeys]
    \cup [op : {"clearAll"}]

Init ==
    /\ disk \in {d \in [STORAGE_KEYS -> {Absent} \cup {JSONstringify(v) : v \in KVValues}] :
                    \A k \in STORAGE_KEYS \ KVKeys : d[k] = Absent}
    /\ cache = EmptyCache
    /\ mem = NoMem
    /\ now = StartTime
    /\ tasks = [t \in TaskIds |-> Idle]
    /\ last = NoCall
    /\ hist = NoHist

Next ==
    \/ \E t \in TaskIds : \E call \in KVCalls : Start(t, call)
    \/ \E t \in TaskIds : Disk(t)
    \/ \E t \in TaskIds : Resume(t)
    \/ Tick
    \/ clearCache

Spec == Init /\ [][Next]_vars


----------------------------------------------------------------------------
(* The repositories: addAppointment, updateAppointment, deleteAppointment, *)
(* getAppointments and addUser, with clearCache.                           *)

RepoIds == {"a1", "a2"}
Appointment(id) == [id |-> id, status |-> "pending", patientId |-> "p1"]
RepoUpdates == {[status |-> "confirmed"]}
RepoUser == [id |-> "u1", email |-> "u1@x"]

\* the collections of at most MaxItems appointments with different ids
RECURSIVE SeqsOver(_, _)
SeqsOver(ids, n) ==
    IF n = 0 THEN {<< >>}
    ELSE {<< >>} \cup
         UNION {{<<Appointment(id)>> \o rest : rest \in SeqsOver(ids \ {id}, n - 1)} :
                    id \in ids}

RepoCalls ==
    [op : {"addAppointment"}, item : {Appointment(id) : id \in RepoIds}]
    \cup [op : {"updateAppointment"}, id : RepoIds, updates : RepoUpdates]
    \cup [op : {"deleteAppointment"}, id : RepoIds]
    \cup [op : {"getAppointments"}]
    \cup [op : {"addUser"}, item : {RepoUser}]

InitRepo ==
    /\ disk \in {[EmptyDisk EXCEPT ![APPOINTMENTS] = text] :
                    text \in {Absent} \cup
                        {JSONstringify(Arr(a)) : a \in SeqsOver(RepoIds, MaxItems)}}
    /\ cache = EmptyCache
    /\ mem = NoMem
    /\ now = StartTime
    /\ tasks = [t \in TaskIds |-> Idle]
    /\ last = NoCall
    /\ hist = NoHist

NextRepo ==
    \/ \E t \in TaskIds : \E call \in RepoCalls : Start(t, call)
    \/ \E t \in TaskIds : Disk(t)
    \/ \E t \in TaskIds : Resume(t)
    \/ clearCache

SpecRepo == InitRepo /\ [][NextRepo]_vars

\* the collection a stored text holds, as getItem(key, []) of an empty cache reads it
StoredItems(text) == IF text = Absent THEN << >> ELSE JSONparse(text).a

\* whether the sequence holds an element with this id
HasId(items, id) == \E i \in 1..Len(items) : items[i].id = id

----------------------------------------------------------------------------
(* Backup and restore: createBackup, restoreFromBackup, clearAll and       *)
(* getAppSettings, with writes of restoreFromBackup that AsyncStorage may  *)
(* reject.  clearAll and getAppSettings may overlap any call.              *)

BackupNotification ==
    [id |-> NumberToString(StartTime), userId |-> "u1", read |-> FALSE,
     createdAt |-> ToISOString(StartTime)]
BackupSettings ==
    Obj([theme |-> "dark", notifications |-> FALSE, language |-> "pt-BR",
         autoBackup |-> TRUE])

\* the stores the backup is taken of: one whose settings were never saved and
\* one with all four sections
BackupStores ==
    LET lists == [EmptyDisk EXCEPT
                     ![APPOINTMENTS] = JSONstringify(Arr(<<Appointment("a1")>>)),
                     ![NOTIFICATIONS] = JSONstringify(Arr(<<BackupNotification>>)),
                     ![REGISTERED_USERS] = JSONstringify(Arr(<<RepoUser>>))]
    IN {lists,
        [lists EXCEPT ![APP_SETTINGS] = JSONstringify(BackupSettings)]}

\* backup strings written by hand: one that is not JSON, the text `null`, an
\* object without `data`, and a backup of two sections
BackupStrings ==
    {RawText("not json"),
     JSONstringify(Null),
     JSONstringify(Obj([timestamp |-> ToISOString(StartTime)])),
     JSONstringify(Obj([timestamp |-> ToISOString(StartTime),
                        data |-> Obj([appointments |-> Arr(<<Appointment("a2")>>),
                                      settings |-> BackupSettings])]))}

BackupCalls ==
    [op : {"createBackup", "clearAll", "getAppSettings"}]
    \cup [op : {"restoreFromBackup"},
          backupString : BackupStrings \cup
              (IF hist.backup = None THEN {} ELSE {hist.backup.text})]

InitBackup ==
    /\ disk \in BackupStores
    /\ cache = EmptyCache
    /\ mem = NoMem
    /\ now = StartTime
    /\ tasks = [t \in TaskIds |-> Idle]
    /\ last = NoCall
    /\ hist = NoHist

\* a call of this group starts; createBackup and restoreFromBackup start when
\* neither of them is in flight, the other calls at any time
StartBackupCall(t) ==
    \E call \in BackupCalls :
        /\ call.op \in {"createBackup", "restoreFromBackup"} =>
              \A u \in TaskIds :
                  tasks[u].op \notin {"createBackup", "restoreFromBackup"}
        /\ Start(t, call)

\* AsyncStorage rejects a write of restoreFromBackup
RestoreWriteFails(t) == tasks[t].op = "restoreFromBackup" /\ DiskFail(t)

NextBackup ==
    \/ \E t \in TaskIds : StartBackupCall(t)
    \/ \E t \in TaskIds : Disk(t)
    \/ \E t \in TaskIds : RestoreWriteFails(t)
    \/ \E t \in TaskIds : Resume(t)

SpecBackup == InitBackup /\ [][NextBackup]_vars

\* the four sections' texts once restoreFromBackup has applied a backup string
\* that has a `data`
SnapshotSections(backupString) ==
    LET data == Prop(JSONparse(backupString), "data") IN
    [i \in 1..NumSections |-> JSONstringify(SectionValue(data, i))]

\* whether something is stored or cached under one of the four sections' keys
SomethingStored == \E i \in 1..NumSections : disk[SectionKeys[i]] # Absent
SomethingCached == \E i \in 1..NumSections : cache[SectionKeys[i]] # NoEntry

----------------------------------------------------------------------------
(* notificationService on its own: getNotifications, getUnreadCount,       *)
(* createNotification, markAsRead, markAllAsRead and deleteNotification,   *)
(* called one after the other, with requests that AsyncStorage may reject. *)

NotifUsers == {"u1", "u2"}

\* the notification createNotification stored at time ms
StoredNotification(ms, userId, read) ==
    [id |-> NumberToString(ms), userId |-> userId, read |-> read,
     createdAt |-> ToISOString(ms), type |-> "general"]

\* the stored lists of n notifications, created at the times 1..n in this order
RECURSIVE NotifLists(_)
NotifLists(n) ==
    IF n = 0 THEN {<< >>}
    ELSE {Append(l, StoredNotification(n, u, r)) :
              l \in NotifLists(n - 1), u \in NotifUsers, r \in BOOLEAN}

NotifIds == {NumberToString(1)}

NotifCalls ==
    [op : {"getUnreadCount", "ns.getNotifications", "markAllAsRead"},
     userId : NotifUsers]
    \cup [op : {"createNotification"},
          notification : {[userId |-> "u1", type |-> "general"]}]
    \cup [op : {"markAsRead", "deleteNotification"}, id : NotifIds]

InitNotif ==
    /\ disk \in {[EmptyDisk EXCEPT ![STORAGE_KEY] = text] :
                    text \in {Absent} \cup
                        {JSONstringify(Arr(l)) :
                            l \in UNION {NotifLists(n) : n \in 0..MaxItems}}}
    /\ cache = EmptyCache
    /\ mem = NoMem
    /\ now = StartTime
    /\ tasks = [t \in TaskIds |-> Idle]
    /\ last = NoCall
    /\ hist = NoHist

\* a method of notificationService is called when no other call is in flight
StartNotifCall(t) == \E call \in NotifCalls : Quiet /\ Start(t, call)

NextNotif ==
    \/ \E t \in TaskIds : StartNotifCall(t)
    \/ \E t \in TaskIds : Disk(t)
    \/ \E t \in TaskIds : DiskFail(t)
    \/ \E t \in TaskIds : Resume(t)

SpecNotif == InitNotif /\ [][NextNotif]_vars

----------------------------------------------------------------------------
(* statisticsService with updateAppointment of storageService, called one  *)
(* after the other, with requests that AsyncStorage may reject.            *)

StatsDoctors == {"d1", "d2"}
StatsPatients == {"p1", "p2"}

\* the dates the appointments are created with, DD/MM/YYYY
StatsDates ==
    <<DateText(<<"1", "5", "/", "0", "1", "/", "2", "0", "2", "4">>),
      DateText(<<"2", "0", "/", "0", "2", "/", "2", "0", "2", "4">>),
      DateText(<<"0", "5", "/", "0", "1", "/", "2", "0", "2", "4">>)>>

\* who the appointments are of, and their status
StatsKinds ==
    {<<"d1", "p1", "pending">>, <<"d1", "p2", "confirmed">>,
     <<"d1", "p1", "cancelled">>, <<"d2", "p2", "pending">>,
     <<"d2", "p1", "confirmed">>}

StatsIdOf(i) == IF i = 1 THEN "a1" ELSE IF i = 2 THEN "a2" ELSE "a3"

StatsAppointment(i, kind) ==
    [id |-> StatsIdOf(i), doctorId |-> kind[1], patientId |-> kind[2],
     status |-> kind[3], date |-> StatsDates[i],
     specialty |-> IF kind[1] = "d1" THEN "Cardiologia" ELSE "Pediatria"]

\* the stored lists of n appointments
RECURSIVE StatsLists(_)
StatsLists(n) ==
    IF n = 0 THEN {<< >>}
    ELSE {Append(l, StatsAppointment(n, kind)) :
              l \in StatsLists(n - 1), kind \in StatsKinds}

\* what updateAppointment is called with: a date in another format, a date
\* that is no string
StatsUpdates ==
    {[date |-> DateText(<<"2", "0", "2", "4", "-", "0", "1", "-", "1", "5">>)],
     [date |-> Null]}

\* the backup restoreFromBackup is called with: the text of a file, whose one
\* appointment has a status outside the three
StatsBackups ==
    {JSONstringify(Obj([timestamp |-> ToISOString(StartTime),
        data |-> Obj([appointments |->
            Arr(<<[StatsAppointment(1, <<"d1", "p1", "pending">>)
                      EXCEPT !.status = "rescheduled"]>>)])]))}

StatsCalls ==
    [op : {"getGeneralStatistics"}]
    \cup [op : {"getDoctorStatistics"}, doctorId : StatsDoctors]
    \cup [op : {"getPatientStatistics"}, patientId : {"p1"}]
    \cup [op : {"updateAppointment"}, id : {"a1"}, updates : StatsUpdates]
    \cup [op : {"restoreFromBackup"}, backupString : StatsBackups]

InitStats ==
    /\ disk \in {[EmptyDisk EXCEPT ![APPOINTMENTS] = text] :
                    text \in {Absent} \cup
                        {JSONstringify(Arr(l)) :
                            l \in UNION {StatsLists(n) : n \in 0..MaxItems}}}
    /\ cache = EmptyCache
    /\ mem = NoMem
    /\ now = StartTime
    /\ tasks = [t \in TaskIds |-> Idle]
    /\ last = NoCall
    /\ hist = NoHist

\* a method is called when no other call is in flight
StartStatsCall(t) == \E call \in StatsCalls : Quiet /\ Start(t, call)

NextStats ==
    \/ \E t \in TaskIds : StartStatsCall(t)
    \/ \E t \in TaskIds : Disk(t)
    \/ \E t \in TaskIds : DiskFail(t)
    \/ \E t \in TaskIds : Resume(t)

SpecStats == InitStats /\ [][NextStats]_vars

----------------------------------------------------------------------------
(* getItem, setItem and removeItem of storageService on one key, called    *)
(* one after the other, with requests that AsyncStorage may reject and a   *)
(* stored text that may be no JSON.                                        *)

ReadKeys == {USER}
ReadValues == {Str("v1")}
\* the defaults getItem is called with: none, a text, the number 0
ReadDefaults == {Undefined, Str("d"), Num(0)}

ReadCalls ==
    [op : {"getItem"}, key : ReadKeys, defaultValue : ReadDefaults]
    \cup [op : {"setItem"}, key : ReadKeys, value : ReadValues,
          expiryMinutes : {0, 1}]
    \cup [op : {"removeItem"}, key : ReadKeys]
    \cup [op : {"clearAll"}]

InitRead ==
    /\ disk \in {[EmptyDisk EXCEPT ![k] = text] :
                    k \in ReadKeys,
                    text \in {Absent, RawText("not json")}
                             \cup {JSONstringify(v) : v \in ReadValues}}
    /\ cache = EmptyCache
    /\ mem = NoMem
    /\ now = StartTime
    /\ tasks = [t \in TaskIds |-> Idle]
    /\ last = NoCall
    /\ hist = NoHist

\* a method is called when no other call is in flight
StartReadCall(t) == \E call \in ReadCalls : Quiet /\ Start(t, call)

NextRead ==
    \/ \E t \in TaskIds : StartReadCall(t)
    \/ \E t \in TaskIds : Disk(t)
    \/ \E t \in TaskIds : DiskFail(t)
    \/ \E t \in TaskIds : Resume(t)

SpecRead == InitRead /\ [][NextRead]_vars

-----------------------------------------------------------------------------
(* notificationService with calls that overlap: createNotification for one *)
(* user, markAsRead, markAllAsRead and deleteNotification on the           *)
(* notification of another that is stored when the behaviour starts.       *)

RaceCalls ==
    [op : {"createNotification"},
     notification : {[userId |-> "u2", type |-> "general"]}]
    \cup [op : {"markAsRead", "deleteNotification"}, id : NotifIds]
    \cup [op : {"markAllAsRead"}, userId : {"u1"}]

InitRace ==
    /\ disk \in {[EmptyDisk EXCEPT ![STORAGE_KEY] = JSONstringify(Arr(l))] :
                    l \in {<<StoredNotification(1, "u1", r)>> : r \in BOOLEAN}}
    /\ cache = EmptyCache
    /\ mem = NoMem
    /\ now = StartTime
    /\ tasks = [t \in TaskIds |-> Idle]
    /\ last = NoCall
    /\ hist = NoHist

StartRaceCall(t) == \E call \in RaceCalls : Start(t, call)

NextRace ==
    \/ \E t \in TaskIds : StartRaceCall(t)
    \/ \E t \in TaskIds : Disk(t)
    \/ \E t \in TaskIds : Resume(t)

SpecRace == InitRace /\ [][NextRace]_vars


-----------------------------------------------------------------------------
(* The two layers over AsyncStorage: storageService.createBackup, which    *)
(* reads through the cache, and notificationService, which reads and       *)
(* writes AsyncStorage itself; one call at a time.                         *)

LayersCalls ==
    [op : {"createBackup"}]
    \cup [op : {"createNotification"},
          notification : {[userId |-> "u1", type |-> "general"]}]
    \cup [op : {"markAsRead", "deleteNotification"}, id : NotifIds]

InitLayers ==
    /\ disk \in {[EmptyDisk EXCEPT ![STORAGE_KEY] = text] :
                    text \in {Absent} \cup
                        {JSONstringify(Arr(l)) : l \in NotifLists(1)}}
    /\ cache = EmptyCache
    /\ mem = NoMem
    /\ now = StartTime
    /\ tasks = [t \in TaskIds |-> Idle]
    /\ last = NoCall
    /\ hist = NoHist

StartLayersCall(t) == \E call \in LayersCalls : Quiet /\ Start(t, call)

NextLayers ==
    \/ \E t \in TaskIds : StartLayersCall(t)
    \/ \E t \in TaskIds : Disk(t)
    \/ \E t \in TaskIds : Resume(t)

SpecLayers == InitLayers /\ [][NextLayers]_vars


-----------------------------------------------------------------------------
(* The appointments between the patient's createAppointment and the two   *)
(* dashboards: the dashboards' handlers overlap, and AsyncStorage may      *)
(* reject a request of a createNotification.                               *)

DashDoctor == [id |-> "d1"]
DashPatient == [id |-> "p1"]

\* an appointment stored earlier, created at time ms
DashAppointment(ms) == NewAppointment(DashPatient, DashDoctor, ms)

\* the appointments of a screen's list that show the two buttons
Pending(appointments) ==
    {appointments[i] : i \in {j \in 1..Len(appointments) :
                                 appointments[j].status = "pending"}}

DashCalls ==
    [op : {"createAppointment"}, user : {DashPatient},
     selectedDoctor : {DashDoctor}]
    \cup [op : {"loadData"}]
    \cup [op : {"loadAppointments"}, user : {DashDoctor}]
    \cup [op : {"handleUpdateStatus"},
          appointmentId : {a.id : a \in Pending(mem.adminAppointments)},
          newStatus : {"confirmed", "cancelled"}]
    \cup [op : {"handleConfirmAction"}, user : {DashDoctor},
          selectedAppointment : Pending(mem.doctorAppointments),
          actionType : {"confirm"}, reason : {Undefined}]
    \cup [op : {"handleConfirmAction"}, user : {DashDoctor},
          selectedAppointment : Pending(mem.doctorAppointments),
          actionType : {"cancel"}, reason : {Str("r")}]

\* the stored appointments are all pending, and each screen has loaded them
InitDash ==
    /\ \E l \in {<< >>, <<DashAppointment(1)>>} :
          /\ disk = [EmptyDisk EXCEPT ![APPOINTMENTS] =
                        IF l = << >> THEN Absent ELSE JSONstringify(Arr(l))]
          /\ mem = [NoMem EXCEPT !.adminAppointments = l,
                                 !.doctorAppointments = OfDoctor(l, DashDoctor.id)]
    /\ cache = EmptyCache
    /\ now = StartTime
    /\ tasks = [t \in TaskIds |-> Idle]
    /\ last = NoCall
    /\ hist = NoHist

\* the handlers of the two dashboards overlap; every other call runs alone
DashHandlers == {"handleUpdateStatus", "handleConfirmAction"}

StartDashCall(t) ==
    \E call \in DashCalls :
        /\ \A u \in TaskIds :
               tasks[u].pc # "idle" => {tasks[u].op, call.op} \subseteq DashHandlers
        /\ Start(t, call)

\* AsyncStorage rejects a request of a createNotification
NotificationRequestFails(t) == tasks[t].key = STORAGE_KEY /\ DiskFail(t)

NextDash ==
    \/ \E t \in TaskIds : StartDashCall(t)
    \/ \E t \in TaskIds : Disk(t)
    \/ \E t \in TaskIds : NotificationRequestFails(t)
    \/ \E t \in TaskIds : Resume(t)

SpecDash == InitDash /\ [][NextDash]_vars


----------------------------------------------------------------------------
(* The session: signIn, register, signOut, updateUser of AuthProvider,     *)
(* saveUserProfile and authService.loadRegisteredUsers, overlapping, with  *)
(* requests that AsyncStorage may reject.                                  *)

\* a patient registered earlier
AuthPatient ==
    [id |-> UserId("patient-", 1), email |-> "ana@example.com",
     role |-> "patient", password |-> "pw"]

\* what is stored when the behaviour starts: nobody or the patient logged in,
\* with the list of registered users the session implies
AuthStores ==
    {EmptyDisk,
     [EmptyDisk EXCEPT ![REGISTERED_USERS] = JSONstringify(Arr(<<AuthPatient>>))],
     [EmptyDisk EXCEPT ![REGISTERED_USERS] = JSONstringify(Arr(<<AuthPatient>>)),
                       ![USER] = JSONstringify(Obj(WithoutPassword(AuthPatient))),
                       ![TOKEN] = TokenText("patient-token-", AuthPatient.id)]}

AuthCredentials ==
    {[email |-> mockAdmin.email, password |-> MockPassword],
     [email |-> AuthPatient.email, password |-> AuthPatient.password],
     [email |-> AuthPatient.email, password |-> "wrong"]}

AuthRegisterData ==
    {[email |-> "bia@example.com", password |-> "pw"],
     [email |-> AuthPatient.email, password |-> "pw"]}

\* the profile the patient saves
AuthUpdatedUser ==
    [WithoutPassword(AuthPatient) EXCEPT !.email = "ana.maria@example.com"]

AuthCalls ==
    [op : {"signIn"}, credentials : AuthCredentials]
    \cup [op : {"register"}, data : AuthRegisterData]
    \cup [op : {"signOut", "loadRegisteredUsers"}]
    \cup [op : {"updateUser", "saveUserProfile"}, user : {AuthUpdatedUser}]

\* the start-up effects (part_003:65-69) have loaded the stored user; the list of
\* registered users is loaded or not yet
InitAuth ==
    /\ disk \in AuthStores
    /\ cache = EmptyCache
    /\ mem \in {[NoMem EXCEPT
                    !.user = IF disk[USER] = Absent THEN Null
                             ELSE JSONparse(disk[USER]),
                    !.registeredUsers = users] :
                  users \in {<< >>} \cup
                      (IF disk[REGISTERED_USERS] = Absent THEN {}
                       ELSE {JSONparse(disk[REGISTERED_USERS]).a})}
    /\ now = StartTime
    /\ tasks = [t \in TaskIds |-> Idle]
    /\ last = NoCall
    /\ hist = NoHist

\* the calls that overlap: signOut with updateUser and saveUserProfile (the
\* logout button is pressed while the profile is being saved, or the other
\* way round), register with the start-up loadRegisteredUsers
AuthOverlaps ==
    {{"signOut", "updateUser"}, {"signOut", "saveUserProfile"},
     {"register", "loadRegisteredUsers"}}

StartAuthCall(t) ==
    \E call \in AuthCalls :
        /\ \A u \in TaskIds :
               tasks[u].pc # "idle" => {tasks[u].op, call.op} \in AuthOverlaps
        \* the profile screen is there for a logged-in user only
        /\ call.op \in {"updateUser", "saveUserProfile"} => mem.user # Null
        /\ Start(t, call)

NextAuth ==
    \/ \E t \in TaskIds : StartAuthCall(t)
    \/ \E t \in TaskIds : Disk(t)
    \/ \E t \in TaskIds : DiskFail(t)
    \/ \E t \in TaskIds : Resume(t)

SpecAuth == InitAuth /\ [][NextAuth]_vars

----------------------------------------------------------------------------
(* C1.  Round trip: once setItem(k, v) has completed, a following          *)
(* getItem(k) returns v, as long as the entry's expiry, if any, has not    *)
(* passed when getItem is called and no other setItem, removeItem or       *)
(* clearAll touching k has completed since.                                *)
(* last.expect is the value of the last completed setItem of the key, if   *)
(* the premise held when getItem was called; last.clean says that it held  *)
(* until getItem returned.                                                 *)
C1_RoundTrip ==
    (last.op = "getItem" /\ last.expect # None /\ last.clean)
        => last.out.v = last.expect.value

(* C2.  Expiry: getItem serves an entry from the cache only if the entry   *)
(* has no expiry or its expiry is later than the clock; when the entry it  *)
(* finds has expired, getItem returns the value the medium holds when it   *)
(* is read, or the default or null when the medium holds none.             *)
C2_TTLExpiry ==
    last.op = "getItem" =>
        /\ last.pc = "get_hit" =>
              /\ last.seen # NoEntry
              /\ (last.seen.expiry = 0 \/ last.seen.expiry > last.t0)
        /\ (last.seen # NoEntry /\ last.seen.expiry # 0
                /\ last.seen.expiry <= last.t0) =>
              /\ last.pc = "get_ret"
              /\ IF last.raw.v = Absent
                 THEN last.out.v \in {last.dflt, Null}
                 ELSE last.out.v = JSONparse(last.raw.v)

\* an expired entry whose value differs from the stored one was found, and
\* getItem returned the stored value
C2_Witness ==
    /\ last.op = "getItem"
    /\ last.seen # NoEntry
    /\ last.seen.expiry # 0
    /\ last.seen.expiry <= last.t0
    /\ last.raw.v # Absent
    /\ JSONparse(last.raw.v) # last.seen.data
    /\ last.out.v = JSONparse(last.raw.v)


(* C3.  No lost update: when add, update and delete calls on one           *)
(* collection overlap, the collection after all of them have completed     *)
(* reflects every one of them; in particular every item whose add has      *)
(* completed, and that no delete call named, is in the stored collection.  *)
C3_NoLostUpdate ==
    Quiet => \A e \in hist.added \ hist.dropped :
                 HasId(StoredItems(disk[e[1]]), e[2])

\* the repository's collection in the medium just before the last call's write,
\* and what its getAll returns right after the call
ItemsBefore == StoredItems(last.before)
ItemsAfter ==
    IF RepoKey(last.op) = APPOINTMENTS THEN last.getters[1].a ELSE last.getters[3].a

\* every element of s is an element of r
AllIn(s, r) == \A i \in 1..Len(s) : \E j \in 1..Len(r) : r[j] = s[i]

(* C4.  After add(x) completes, getAll() of the repository contains x      *)
(* exactly once and every item the collection held before is still there.  *)
(* Stated for an x whose id the collection did not hold before.            *)
C4_AddOnce ==
    (last.op \in RepoAdders /\ ~last.out.threw
        /\ ~HasId(ItemsBefore, last.arg.item.id)) =>
        LET IsX(y) == y = last.arg.item IN
        /\ Len(SelectSeq(ItemsAfter, IsX)) = 1
        /\ AllIn(ItemsBefore, ItemsAfter)

(* C5.  update(id, patch) changes only the patched fields of the item      *)
(* whose id matches: its other fields and every other item are unchanged,  *)
(* and when no item has the id the collection is unchanged and nothing is  *)
(* thrown.                                                                 *)
C5_UpdateFrame ==
    last.op = "updateAppointment" =>
        /\ ~last.out.threw
        /\ Len(ItemsAfter) = Len(ItemsBefore)
        /\ \A i \in 1..Len(ItemsBefore) :
              IF ItemsBefore[i].id = last.arg.id
              THEN /\ DOMAIN ItemsAfter[i] = DOMAIN ItemsBefore[i] \cup DOMAIN last.arg.updates
                   /\ \A f \in DOMAIN ItemsAfter[i] :
                         ItemsAfter[i][f] = IF f \in DOMAIN last.arg.updates
                                            THEN last.arg.updates[f]
                                            ELSE ItemsBefore[i][f]
              ELSE ItemsAfter[i] = ItemsBefore[i]

(* C6.  After delete(id) completes, getAll() holds no item with the id and *)
(* holds every other item unchanged; when no item has the id the           *)
(* collection is unchanged and nothing is thrown.                          *)
C6_DeleteFrame ==
    last.op = "deleteAppointment" =>
        LET Other(x) == x.id # last.arg.id IN
        /\ ~last.out.threw
        /\ ~HasId(ItemsAfter, last.arg.id)
        /\ ItemsAfter = SelectSeq(ItemsBefore, Other)


(* C7.  Backup round trip: restoring, on a store that was just cleared,    *)
(* the string createBackup produced on a store S yields a store whose      *)
(* getAppointments, getNotifications, getRegisteredUsers and               *)
(* getAppSettings return what they returned on S.                          *)
C7_BackupRoundTrip ==
    (last.op = "restoreFromBackup" /\ last.expect # None /\ last.clean
        /\ ~last.out.threw)
        => last.getters = last.expect.source

(* C8.  Restore and parse failure: a call of restoreFromBackup with a      *)
(* string that JSON.parse rejects throws, and none of its steps changes    *)
(* the medium or the cache, so the four sections stay as they were in      *)
(* both.                                                                   *)
C8_RestoreParseFailure ==
    [][\A t \in TaskIds :
          /\ (tasks[t].pc = "idle" /\ tasks'[t].op = "restoreFromBackup"
                 /\ ParseThrows(tasks'[t].arg.backupString))
                => /\ disk' = disk
                   /\ cache' = cache
                   /\ tasks'[t].pc = "settled"
                   /\ tasks'[t].acc = Threw
          /\ (tasks[t].op = "restoreFromBackup"
                 /\ ParseThrows(tasks[t].arg.backupString)
                 /\ tasks'[t].pc # tasks[t].pc)
                => /\ disk' = disk
                   /\ cache' = cache
                   /\ tasks'[t].pc = "idle"
                   /\ last'.op = "restoreFromBackup"
                   /\ last'.out.threw]_vars

\* restoreFromBackup of a string that is not JSON has thrown, on a store that
\* holds sections in the medium and in the cache, and the sections are as before
C8_Witness ==
    /\ last.op = "restoreFromBackup"
    /\ ParseThrows(last.arg.backupString)
    /\ last.out.threw
    /\ last.clean
    /\ last.sections = last.prev
    /\ SomethingStored
    /\ SomethingCached

(* C9.  Restore is atomic: after restoreFromBackup ends, with or without   *)
(* an error, either all four sections hold the snapshot's contents or all  *)
(* four hold what they held before the call.                               *)
C9_RestoreAtomic ==
    (last.op = "restoreFromBackup" /\ last.clean) =>
        \/ last.sections = last.prev
        \/ /\ ~ParseThrows(last.arg.backupString)
           /\ JSONparse(last.arg.backupString).t = "object"
           /\ Truthy(Prop(JSONparse(last.arg.backupString), "data"))
           /\ last.sections = SnapshotSections(last.arg.backupString)


\* the stored notifications getUnreadCount was answered with
NotificationsRead == StoredItems(last.raw.v)

(* C10.  Unread count: for every stored collection of notifications and    *)
(* every user u, getUnreadCount(u) is the number of stored notifications   *)
(* whose userId is u and whose read is false, the collection being the one *)
(* AsyncStorage answers the call's read with.                              *)
C10_UnreadCount ==
    (last.op = "getUnreadCount" /\ last.raw.ok) =>
        last.out.v =
            Num(Cardinality({i \in 1..Len(NotificationsRead) :
                                /\ NotificationsRead[i].userId = last.arg.userId
                                /\ NotificationsRead[i].read = FALSE}))

\* getUnreadCount(u) returned 1 for a collection that holds an unread
\* notification of u, and an unread one of another user
C10_Witness ==
    /\ last.op = "getUnreadCount"
    /\ last.raw.ok
    /\ last.out.v = Num(1)
    /\ \E i, j \in 1..Len(NotificationsRead) :
          /\ NotificationsRead[i].userId = last.arg.userId
          /\ ~NotificationsRead[i].read
          /\ NotificationsRead[j].userId # last.arg.userId
          /\ ~NotificationsRead[j].read


\* the stored notifications when the last call started and when it ended
StoredNotificationsBefore == StoredItems(last.prev[2])
StoredNotificationsAfter == StoredItems(last.sections[2])

(* C11.  markAllAsRead(u) affects only u's notifications: after it         *)
(* completes every notification of u has read = true and every             *)
(* notification of another user is unchanged.  Stated for a call whose     *)
(* read of the stored list AsyncStorage answered.                          *)
C11_MarkAllAsRead ==
    (last.op = "markAllAsRead" /\ ~last.out.threw /\ last.read # None) =>
        /\ Len(StoredNotificationsAfter) = Len(StoredNotificationsBefore)
        /\ \A i \in 1..Len(StoredNotificationsBefore) :
              IF StoredNotificationsBefore[i].userId = last.arg.userId
              THEN StoredNotificationsAfter[i] =
                       [StoredNotificationsBefore[i] EXCEPT !.read = TRUE]
              ELSE StoredNotificationsAfter[i] = StoredNotificationsBefore[i]


\* the appointments a method of statisticsService was answered with, and the
\* statistics it returned
StatsInput ==
    IF last.op = "getGeneralStatistics" THEN last.read.a
    ELSE StoredItems(last.raw.v)
StatsOutput == last.out.v.o

\* the indices of the appointments of s that are of doctor d
IndicesOfDoctor(s, d) == {i \in 1..Len(s) : s[i].doctorId = d}
\* how many of the appointments of s at the indices I have this status
NumWithStatus(s, I, status) == Cardinality({i \in I : s[i].status = status})

(* C12.  Aggregation: getGeneralStatistics yields totalAppointments = the  *)
(* number of stored appointments, the confirmed, pending and cancelled     *)
(* counts = the number of appointments with that status, totalPatients and *)
(* totalDoctors = the number of distinct patientId and doctorId values;    *)
(* getDoctorStatistics(d) yields the same counts over exactly the          *)
(* appointments whose doctorId is d.                                       *)
C12_Aggregation ==
    /\ (last.op = "getGeneralStatistics" /\ ~last.out.threw) =>
          LET s == StatsInput
              all == 1..Len(s)
          IN /\ StatsOutput.totalAppointments = Len(s)
             /\ StatsOutput.confirmedAppointments = NumWithStatus(s, all, "confirmed")
             /\ StatsOutput.pendingAppointments = NumWithStatus(s, all, "pending")
             /\ StatsOutput.cancelledAppointments = NumWithStatus(s, all, "cancelled")
             /\ StatsOutput.totalPatients = Cardinality({s[i].patientId : i \in all})
             /\ StatsOutput.totalDoctors = Cardinality({s[i].doctorId : i \in all})
    /\ (last.op = "getDoctorStatistics" /\ ~last.out.threw) =>
          LET s == StatsInput
              mine == IndicesOfDoctor(s, last.arg.doctorId)
          IN /\ StatsOutput.totalAppointments = Cardinality(mine)
             /\ StatsOutput.confirmedAppointments = NumWithStatus(s, mine, "confirmed")
             /\ StatsOutput.pendingAppointments = NumWithStatus(s, mine, "pending")
             /\ StatsOutput.cancelledAppointments = NumWithStatus(s, mine, "cancelled")
             /\ StatsOutput.totalPatients = Cardinality({s[i].patientId : i \in mine})

\* getDoctorStatistics(d) has returned for a list that holds appointments of d
\* and of another doctor, of different statuses
C12_Witness ==
    /\ last.op = "getDoctorStatistics"
    /\ ~last.out.threw
    /\ StatsOutput.totalAppointments >= 1
    /\ StatsOutput.totalAppointments < Len(StatsInput)
    /\ \E i, j \in 1..Len(StatsInput) :
          /\ StatsInput[i].doctorId = last.arg.doctorId
          /\ StatsInput[j].doctorId # last.arg.doctorId
          /\ StatsInput[i].status # StatsInput[j].status


Digits == {"0", "1", "2", "3", "4", "5", "6", "7", "8", "9"}

\* whether a date is a string of the form DD/MM/YYYY
IsDDMMYYYY(date) ==
    /\ date.t = "string"
    /\ LET parts == Split(date.chars, "/") IN
       /\ Len(parts) = 3
       /\ Len(parts[1]) = 2 /\ Len(parts[2]) = 2 /\ Len(parts[3]) = 4
       /\ \A p \in 1..3 : \A i \in 1..Len(parts[p]) : parts[p][i] \in Digits

\* the sum of the counts of a histogram
RECURSIVE SumOfCounts(_)
SumOfCounts(counts) ==
    IF DOMAIN counts = {} THEN 0
    ELSE LET k == CHOOSE x \in DOMAIN counts : TRUE IN
         counts[k] + SumOfCounts([x \in DOMAIN counts \ {k} |-> counts[x]])

(* C13.  Malformed dates: an appointment whose date does not parse as      *)
(* DD/MM/YYYY contributes to no bucket of appointmentsByMonth, so the      *)
(* histogram's counts sum to the number of appointments with parsable      *)
(* dates, and it is still counted in totalAppointments.                    *)
C13_MalformedDate ==
    (last.op = "getGeneralStatistics" /\ ~last.out.threw) =>
        /\ SumOfCounts(StatsOutput.appointmentsByMonth) =
              Cardinality({i \in 1..Len(StatsInput) : IsDDMMYYYY(StatsInput[i].date)})
        /\ StatsOutput.totalAppointments = Len(StatsInput)

(* C14.  Status percentages: the confirmed, pending and cancelled          *)
(* percentages the general, per-doctor and per-patient statistics return   *)
(* sum to 100 when the total is greater than 0, and are all 0 when the     *)
(* total is 0.                                                             *)
C14_Percentages ==
    (last.op \in StatisticsOps /\ ~last.out.threw) =>
        LET p == StatsOutput.statusPercentages IN
        IF StatsOutput.totalAppointments > 0
        THEN /\ p.confirmed.den = p.pending.den
             /\ p.pending.den = p.cancelled.den
             /\ p.confirmed.num + p.pending.num + p.cancelled.num
                    = 100 * p.confirmed.den
        ELSE p.confirmed.num = 0 /\ p.pending.num = 0 /\ p.cancelled.num = 0

\* no two elements of the sequence have the same id
UniqueIds(items) ==
    \A i, j \in 1..Len(items) : items[i].id = items[j].id => i = j

(* C15.  Entity ids: after an add, update or delete of a repository        *)
(* completes, no two items of its collection have the same id.             *)
C15_UniqueIds ==
    (last.op \in RepoMutators /\ ~last.out.threw) => UniqueIds(ItemsAfter)

(* C16.  Status domain: every stored appointment's status is one of        *)
(* pending, confirmed and cancelled, whatever was restored or added.       *)
C16_StatusDomain ==
    LET stored == StoredItems(disk[APPOINTMENTS]) IN
    \A i \in 1..Len(stored) :
        stored[i].status \in {"pending", "confirmed", "cancelled"}

(* C17.  Fresh entities: the notification createNotification stores has    *)
(* read = false and an id that no other notification of the collection     *)
(* has, also when another one was created within the same millisecond.     *)
(* Stated for a call whose write changed the stored list.                  *)
C17_FreshNotification ==
    (last.op = "createNotification" /\ ~last.out.threw
        /\ last.sections[2] # last.prev[2]) =>
        LET created == StoredNotificationsAfter[Len(StoredNotificationsAfter)] IN
        /\ Len(StoredNotificationsAfter) = Len(StoredNotificationsBefore) + 1
        /\ created.read = FALSE
        /\ ~HasId(StoredNotificationsBefore, created.id)

\* the last call was a getItem that found no valid cache entry and whose read
\* was rejected, or answered with no text or with a text that is no JSON
ReadFoundNothing ==
    /\ last.op = "getItem"
    /\ last.pc = "get_ret"
    /\ \/ ~last.raw.ok
       \/ last.raw.v = Absent
       \/ ParseThrows(last.raw.v)

(* C18.  Reads never throw: getItem never raises to its caller, and when   *)
(* the read or the parse fails, or the key is in neither the cache nor     *)
(* the medium, it returns the default it was given, or null when it was    *)
(* given none.                                                             *)
C18_ReadsNeverThrow ==
    /\ last.op = "getItem" => ~last.out.threw
    /\ ReadFoundNothing =>
          last.out.v = IF last.dflt = Undefined THEN Null ELSE last.dflt

(* C19.  Writes propagate errors: a call whose write AsyncStorage rejects   *)
(* ends with an error its caller sees; this includes createNotification,   *)
(* markAsRead, markAllAsRead and deleteNotification.                       *)
C19_WritesPropagate ==
    (last.pc \in {"set_ret", "aset_ret"} /\ ~last.raw.ok) => last.out.threw

(* C20.  Removal: once removeItem(k) or clearAll() has completed            *)
(* successfully, k is in neither the medium nor the cache, so a getItem(k) *)
(* that follows returns the default, or null when it was given none.       *)
(* last.gone says that the last write of the key that had completed when   *)
(* getItem was called was a removeItem or a clearAll and that no call was  *)
(* in flight; last.clean that no write of the key completed before getItem *)
(* returned.                                                               *)
C20_Removed ==
    (last.op = "getItem" /\ last.gone /\ last.clean) =>
        last.out.v = IF last.dflt = Undefined THEN Null ELSE last.dflt

(* C21.  Session persistence is atomic: once signIn or register has ended, *)
(* with or without an error, the medium holds both the user key and the    *)
(* token key or neither of them.                                           *)
(* Stated for a call that found both keys or neither when it started.      *)
SessionPaired(user, token) == user = Absent <=> token = Absent

C21_SessionAtomic ==
    (/\ Quiet
     /\ last.op \in {"signIn", "register"}
     /\ SessionPaired(last.session[1], last.session[2])) =>
        SessionPaired(disk[USER], disk[TOKEN])

(* C22.  signOut clears the session: once a signOut has completed, all its *)
(* removals acknowledged, and until the next signIn or register starts, the *)
(* medium holds neither the user key nor the token key and the in-memory    *)
(* user is null, whatever updateUser and saveUserProfile calls overlapped.  *)
C22_SignedOut ==
    hist.signedOut =>
        /\ disk[USER] = Absent
        /\ disk[TOKEN] = Absent
        /\ mem.user = Null

\* the collection the medium holds under key, as statisticsService and
\* notificationService read it: `data ? JSON.parse(data) : []`
CollectionInMedium(key) ==
    IF Truthy(disk[key]) THEN JSONparse(disk[key]) ELSE EmptyArray

(* C23.  createBackup sees what every other component wrote: the           *)
(* appointments and notifications sections of the backup it returns equal   *)
(* the collections the medium holds when it returns, no call in flight.     *)
C23_BackupSeesMedium ==
    (Quiet /\ last.op = "createBackup" /\ ~last.out.threw) =>
        LET data == JSONparse(last.out.v).o.data.o IN
        /\ data.appointments = CollectionInMedium(APPOINTMENTS)
        /\ data.notifications = CollectionInMedium(NOTIFICATIONS)

(* C24.  Cache coherence under interleaving of getItem, setItem,           *)
(* removeItem, clearAll and clearCache: whenever no operation is in flight, *)
(* every cache entry is for a key the medium holds, and every unexpired    *)
(* entry holds the value the medium holds for its key.                      *)
C24_CacheCoherent ==
    Quiet =>
        \A k \in STORAGE_KEYS :
            cache[k] # NoEntry =>
                /\ disk[k] # Absent
                /\ CacheValid(cache[k], now) =>
                       /\ ~ParseThrows(disk[k])
                       /\ cache[k].data = JSONparse(disk[k])

\* the methods of storageService that write the medium
WriteOps == {"setItem", "removeItem", "clearAll"}

\* a step of a call of setItem, removeItem or clearAll whose write fails: the
\* call starts, AsyncStorage rejects its request, or the call is resumed with
\* the rejection
FailedWriteStep(t) ==
    \/ tasks[t].pc = "idle" /\ tasks'[t].op \in WriteOps
    \/ tasks[t].op \in WriteOps /\ tasks[t].pc \in IoPcs /\ ~tasks'[t].raw.ok
    \/ tasks[t].op \in WriteOps /\ tasks[t].pc \in RetPcs /\ ~tasks[t].raw.ok

(* C25.  A failed write changes nothing: a call of setItem whose write     *)
(* AsyncStorage rejects leaves the cache and the medium as they were, from  *)
(* its start to its end, and so does a removeItem or a clearAll whose      *)
(* delete is rejected.                                                     *)
C25_FailedWrite ==
    [][\A t \in TaskIds : FailedWriteStep(t) => cache' = cache /\ disk' = disk]_vars

\* a setItem failed on a key that has a cache entry and a stored value
C25_Witness ==
    /\ last.op = "setItem"
    /\ last.out.threw
    /\ cache[last.key] # NoEntry
    /\ disk[last.key] # Absent

\* the status the medium holds for the appointment with the id, "none" when it
\* holds no such appointment
StoredStatus(d, id) ==
    LET all == IF Truthy(d[APPOINTMENTS]) THEN JSONparse(d[APPOINTMENTS]).a
               ELSE << >>
        Is(a) == a.id = id
        found == SelectSeq(all, Is)
    IN IF found = << >> THEN "none" ELSE found[1].status

AppointmentIds == {NumberToString(1), NumberToString(StartTime)}

(* C26.  The status of an appointment is a one-way state machine: under    *)
(* any interleaving of handleConfirmAction and handleUpdateStatus, a stored *)
(* appointment that is confirmed or cancelled never changes status again.  *)
C26_StatusOneWay ==
    [][\A id \in AppointmentIds :
          StoredStatus(disk, id) \in {"confirmed", "cancelled"} =>
              StoredStatus(disk', id) = StoredStatus(disk, id)]_vars

\* the notifications the medium holds
StoredNotifications == AllNotifications(disk[STORAGE_KEY])

(* C27.  Read is monotonic and delete is final: under any interleaving of  *)
(* createNotification, markAsRead, markAllAsRead and deleteNotification, a  *)
(* notification that a completed markAsRead or markAllAsRead has marked is  *)
(* read for as long as it is stored, and a notification that a completed    *)
(* deleteNotification has removed is not stored again.                      *)
C27_ReadAndDeleteStay ==
    \A i \in 1..Len(StoredNotifications) :
        LET n == StoredNotifications[i] IN
        /\ n.id \in hist.marked => n.read
        /\ n.id \notin hist.deleted

\* the appointments the medium holds
StoredAppointments ==
    IF Truthy(disk[APPOINTMENTS]) THEN JSONparse(disk[APPOINTMENTS]).a ELSE << >>

\* the new appointment of the createAppointment that ended last
LastNewAppointment ==
    NewAppointment(last.arg.user, last.arg.selectedDoctor, last.t0)

(* C28.  createAppointment saves the new appointment and then notifies the *)
(* doctor: when createAppointment has returned successfully, the stored     *)
(* appointments contain the new appointment, pending, and the stored        *)
(* notifications contain an unread notification addressed to the selected   *)
(* doctor whose appointmentId is the new appointment's id.                  *)
C28_SavedAndNotified ==
    (Quiet /\ last.op = "createAppointment" /\ ~last.out.threw) =>
        /\ \E i \in 1..Len(StoredAppointments) :
               StoredAppointments[i] = LastNewAppointment
        /\ \E i \in 1..Len(StoredNotifications) :
               /\ StoredNotifications[i].userId = last.arg.selectedDoctor.id
               /\ StoredNotifications[i].appointmentId = LastNewAppointment.id
               /\ ~StoredNotifications[i].read

\* the notification of a new appointment is never stored before the appointment
C28_NeverBefore ==
    \A i \in 1..Len(StoredNotifications) :
        StoredNotifications[i].type = "general" =>
            \E j \in 1..Len(StoredAppointments) :
                StoredAppointments[j].id = StoredNotifications[i].appointmentId

\* the type of the notification that tells a status
NoticeType(status) ==
    IF status = "confirmed" THEN "appointment_confirmed"
    ELSE "appointment_cancelled"

(* C29.  Every status change is notified to the patient: when no operation *)
(* is in flight, each stored appointment that is confirmed (cancelled) has  *)
(* had a notification of type appointment_confirmed (appointment_cancelled) *)
(* stored for its patientId with its id as appointmentId, whichever         *)
(* dashboard made the change.                                               *)
C29_StatusNotified ==
    Quiet =>
        \A i \in 1..Len(StoredAppointments) :
            LET a == StoredAppointments[i] IN
            a.status \in {"confirmed", "cancelled"} =>
                <<NoticeType(a.status), a.patientId, a.id>> \in hist.notified

\* the registered users a stored text holds
UsersIn(text) == IF Truthy(text) THEN JSONparse(text).a ELSE << >>

\* no two users of the list share an id or an email
DistinctUsers(users) ==
    \A i, j \in 1..Len(users) :
        i # j => users[i].id # users[j].id /\ users[i].email # users[j].email

(* C30.  register never loses or duplicates registered users: the list of  *)
(* registered users that is persisted when a register has returned         *)
(* successfully contains every user that was persisted when the call        *)
(* started, and no two persisted users share an id or an email.             *)
C30_RegisterKeepsUsers ==
    (Quiet /\ last.op = "register" /\ ~last.out.threw) =>
        LET before == UsersIn(last.prev[3])
            after == UsersIn(disk[REGISTERED_USERS])
        IN /\ \A i \in 1..Len(before) :
                  \E j \in 1..Len(after) : after[j] = before[i]
           /\ DistinctUsers(after)

====
